---- MODULE Spec2Model ----
(***************************************************************************)
(* The cache / refresh layer of xtream-loader (src/api_client.py),         *)
(* together with the SQLAlchemy session handling of src/database.py and    *)
(* the SQLite store behind it.                                             *)
(*                                                                         *)
(* A request is served by one database session.  It reads the freshness    *)
(* record of its resource key, decides whether to fetch upstream, and on a *)
(* fetch deletes the rows in scope, inserts the mapped payload, writes the *)
(* freshness record and commits; then it reads the rows back.              *)
(*                                                                         *)
(* Time is counted in hours.  The store is the committed content of the    *)
(* SQLite file; a session that has executed a DELETE holds the SQLite      *)
(* write lock until it commits or rolls back.                              *)
(***************************************************************************)
EXTENDS Integers, FiniteSets, Sequences, TLC

(* ------------------------------ bounds -------------------------------- *)

\* requests started in one behaviour
MaxCalls == 3
\* clock advances in one behaviour
MaxTicks == 2
\* requests in one behaviour that start while another is being served
MaxOverlap == 1

\* concurrent requests (database sessions)
Sessions == {1, 2}
\* category ids, and the ids of streams / series / films / vods
CategoryIds == {1, 2}
EntityIds == {1, 2}
\* the id lists an upstream payload may carry
IdLists == {<<>>, <<1>>, <<2>>, <<1, 2>>}

(* ----------------------------- constants ------------------------------ *)

\* timedelta(hours=24)
TTL == 24
\* the clock advances in steps of the window
ClockStep == TTL

(* ------------------------- resource families -------------------------- *)

\* A behaviour exercises the operations of one family.  Two families share
\* no table and no freshness key, except the two of the series table: the
\* series lists (per category and all series), and the episodes of a
\* series next to the list that holds its Series row.
Families ==
  {"account", "live_categories", "live_channels", "epg", "film_categories",
   "film_streams", "film_details", "series_categories", "series",
   "series_episodes"}

Ops ==
  {"get_user_info", "get_live_category", "get_live_streams_by_category",
   "get_epg_info", "get_film_categories", "get_film_streams_by_category",
   "get_film_details", "get_series_category", "get_series_by_category",
   "get_series_streams_by_series", "get_all_series"}

FamiliesOf(op) ==
  CASE op = "get_user_info" -> {"account"}
    [] op = "get_live_category" -> {"live_categories"}
    [] op = "get_live_streams_by_category" -> {"live_channels"}
    [] op = "get_epg_info" -> {"epg"}
    [] op = "get_film_categories" -> {"film_categories"}
    [] op = "get_film_streams_by_category" -> {"film_streams"}
    [] op = "get_film_details" -> {"film_details"}
    [] op = "get_series_category" -> {"series_categories"}
    [] op = "get_series_by_category" -> {"series", "series_episodes"}
    [] op = "get_series_streams_by_series" -> {"series_episodes"}
    [] OTHER -> {"series"}

\* operations whose refresh replaces a list of rows (delete, then insert)
ListOps ==
  {"get_live_category", "get_live_streams_by_category", "get_epg_info",
   "get_film_categories", "get_film_streams_by_category",
   "get_series_category", "get_series_by_category",
   "get_series_streams_by_series", "get_all_series"}

\* operations whose refresh updates one row in place, or inserts it
UpsertOps == {"get_user_info", "get_film_details"}

\* operations whose scope is the whole table
GlobalOps ==
  {"get_user_info", "get_live_category", "get_film_categories",
   "get_series_category", "get_all_series"}

Args(op) ==
  IF op \in GlobalOps THEN {0}
  ELSE IF op \in {"get_live_streams_by_category", "get_film_streams_by_category",
                  "get_series_by_category"} THEN CategoryIds
  ELSE EntityIds

(* ------------------------------ the store ----------------------------- *)

VARIABLES
  focus,    \* the resource family of this behaviour
  clock,    \* datetime.utcnow(), in hours
  db,       \* committed content of the tables
  lock,     \* session holding the SQLite write lock, 0 when free
  sess,     \* per session: the request it is serving
  ncalls,   \* requests started so far
  noverlap, \* requests started while another was being served
  prev,     \* the request that completed last
  view      \* the work of the shaping and page layer

vars == <<focus, clock, db, lock, sess, ncalls, noverlap, prev, view>>

EmptyDb ==
  [refresh_data |-> {}, user_info |-> {}, live_categories |-> {},
   live_channels |-> {}, epg_listings |-> {}, film_categories |-> {},
   film_streams |-> {}, film_details |-> {}, series_categories |-> {},
   series |-> {}, series_episodes |-> {}]

\* "no object": the result of .first() on an empty query
NoRec == [id |-> 0, data_type |-> <<"", 0>>, last_refresh |-> 0]

MaxOf(S) == CHOOSE x \in S : \A y \in S : y <= x
MinOf(S) == CHOOSE x \in S : \A y \in S : x <= y

\* the rowid SQLite gives to a new row: one more than the largest in use
NextId(rows) == IF rows = {} THEN 1 ELSE MaxOf({x.id : x \in rows}) + 1

(* ------------------------- keys, tables, scopes ------------------------ *)

\* RefreshData.data_type of an operation: "live_categories",
\* f"live_channels_{category_id}", ... as a pair <<prefix, id>>
DataType(op, arg) ==
  CASE op = "get_user_info" -> <<"user_info", 0>>
    [] op = "get_live_category" -> <<"live_categories", 0>>
    [] op = "get_live_streams_by_category" -> <<"live_channels", arg>>
    [] op = "get_epg_info" -> <<"epg", arg>>
    [] op = "get_film_categories" -> <<"film_categories", 0>>
    [] op = "get_film_streams_by_category" -> <<"film_streams", arg>>
    [] op = "get_film_details" -> <<"film_details", arg>>
    [] op = "get_series_category" -> <<"series_categories", 0>>
    [] op = "get_series_by_category" -> <<"series", arg>>
    [] op = "get_series_streams_by_series" -> <<"series_streams", arg>>
    [] OTHER -> <<"all_series", 0>>

\* the table an operation replaces and reads
TableOf(op) ==
  CASE op = "get_user_info" -> "user_info"
    [] op = "get_live_category" -> "live_categories"
    [] op = "get_live_streams_by_category" -> "live_channels"
    [] op = "get_epg_info" -> "epg_listings"
    [] op = "get_film_categories" -> "film_categories"
    [] op = "get_film_streams_by_category" -> "film_streams"
    [] op = "get_film_details" -> "film_details"
    [] op = "get_series_category" -> "series_categories"
    [] op = "get_series_streams_by_series" -> "series_episodes"
    [] OTHER -> "series"

\* the column the filter of an operation compares with its argument
ScopeColumn(op) ==
  CASE op \in {"get_live_streams_by_category", "get_film_streams_by_category",
               "get_series_by_category"} -> "category_id"
    [] op \in {"get_epg_info", "get_film_details"} -> "stream_id"
    [] op = "get_series_streams_by_series" -> "series_id"
    [] OTHER -> ""

\* db.query(T).filter(T.col == arg): the rows of the operation's scope
InScope(op, arg, rows) ==
  IF ScopeColumn(op) = "" THEN rows
  ELSE {x \in rows : x[ScopeColumn(op)] = arg}

Scope(op, arg, d) == InScope(op, arg, d[TableOf(op)])

\* film_details declared without unique=True on stream_id
UniqueColumnOfLists(table) ==
  CASE table = "refresh_data" -> "data_type"
    [] table \in {"live_categories", "film_categories", "series_categories"}
         -> "category_id"
    [] table \in {"live_channels", "film_streams"} -> "stream_id"
    [] table = "series" -> "series_id"
    [] OTHER -> ""

\* Column(..., unique=True) of each table ("" when the table has none)
UniqueColumn(table) ==
  CASE table = "refresh_data" -> "data_type"
    [] table \in {"live_categories", "film_categories", "series_categories"}
         -> "category_id"
    [] table \in {"live_channels", "film_streams", "film_details"} -> "stream_id"
    [] table = "series" -> "series_id"
    [] OTHER -> ""

\* db.query(RefreshData).filter(RefreshData.data_type == key).first()
FirstRefreshData(d, key) ==
  LET hits == {x \in d.refresh_data : x.data_type = key}
  IN IF hits = {} THEN NoRec
     ELSE CHOOSE x \in hits : x.id = MinOf({y.id : y \in hits})

(* ------------------------------ staleness ----------------------------- *)

\* a window that closes one tick early: >= in place of >
IsStaleAtWindow(force, rec, now) ==
  \/ force
  \/ rec = NoRec
  \/ now - rec.last_refresh >= TTL

\* force_refresh or not refresh_data
\*   or datetime.utcnow() - refresh_data.last_refresh > timedelta(hours=24)
IsStale(force, rec, now) ==
  \/ force
  \/ rec = NoRec
  \/ now - rec.last_refresh > TTL

\* the series list of a category decided like every other list, by its
\* freshness record alone
MustFetchByRecord(op, arg, force, d, now) ==
  LET rec == FirstRefreshData(d, DataType(op, arg))
  IN CASE op \in UpsertOps -> IsStale(force, rec, now) \/ Scope(op, arg, d) = {}
       [] op = "get_epg_info" -> IsStale(FALSE, rec, now)
       [] OTHER -> IsStale(force, rec, now)

\* get_epg_info given the force_refresh parameter of the other operations
MustFetchForcedEpg(op, arg, force, d, now) ==
  LET rec == FirstRefreshData(d, DataType(op, arg))
  IN CASE op \in UpsertOps -> IsStale(force, rec, now) \/ Scope(op, arg, d) = {}
       [] op = "get_series_by_category" ->
            ~(Scope(op, arg, d) # {} /\ ~force) /\ IsStale(force, rec, now)
       [] OTHER -> IsStale(force, rec, now)

\* the two detail operations deciding by the freshness record alone
MustFetchIgnoringRow(op, arg, force, d, now) ==
  LET rec == FirstRefreshData(d, DataType(op, arg))
  IN CASE op = "get_epg_info" -> IsStale(FALSE, rec, now)
       [] op = "get_series_by_category" ->
            ~(Scope(op, arg, d) # {} /\ ~force) /\ IsStale(force, rec, now)
       [] OTHER -> IsStale(force, rec, now)

\* the episode operation taking a missing Series row for staleness
MustFetchMissingSeries(op, arg, force, d, now) ==
  LET rec == FirstRefreshData(d, DataType(op, arg))
  IN CASE op \in UpsertOps -> IsStale(force, rec, now) \/ Scope(op, arg, d) = {}
       [] op = "get_epg_info" -> IsStale(FALSE, rec, now)
       [] op = "get_series_by_category" ->
            ~(Scope(op, arg, d) # {} /\ ~force) /\ IsStale(force, rec, now)
       [] op = "get_series_streams_by_series" ->
            IsStale(force, rec, now) \/ ~\E x \in d.series : x.series_id = arg
       [] OTHER -> IsStale(force, rec, now)

\* the decision of each operation to fetch upstream
MustFetch(op, arg, force, d, now) ==
  LET rec == FirstRefreshData(d, DataType(op, arg))
  IN CASE op \in UpsertOps ->
            \* ... or not user_info / or not film_detail
            IsStale(force, rec, now) \/ Scope(op, arg, d) = {}
       [] op = "get_epg_info" ->
            \* get_epg_info takes no force_refresh
            IsStale(FALSE, rec, now)
       [] op = "get_series_by_category" ->
            \* if existing_series and not force_refresh: return them
            /\ ~(Scope(op, arg, d) # {} /\ ~force)
            /\ IsStale(force, rec, now)
       [] OTHER -> IsStale(force, rec, now)

(* --------------------------- upstream payloads ------------------------ *)

NoPayload == [entries |-> <<>>, info |-> 0]

\* the JSON bodies the provider may return for an operation: the entries
\* of a list carry the provider's id of the category, stream, series,
\* episode or listing.  The content of an entry (its name, icon, plot,
\* ...) is v, the serial number of the request that fetched it: no two
\* requests are answered with the same content.
Payloads(op, v) ==
  CASE op \in UpsertOps ->
         {[entries |-> <<>>, info |-> v]}
    [] op = "get_all_series" ->
         {[entries |-> [i \in 1..Len(l) |->
                          [id |-> l[i], category_id |-> c[l[i]], v |-> v]],
           info |-> 0] : l \in IdLists, c \in [EntityIds -> CategoryIds]}
    [] op = "get_series_streams_by_series" ->
         {[entries |-> [i \in 1..Len(l) |->
                          [id |-> l[i], season |-> l[i], episode_num |-> 1, v |-> v]],
           info |-> v] : l \in IdLists}
    [] OTHER ->
         {[entries |-> [i \in 1..Len(l) |-> [id |-> l[i], v |-> v]],
           info |-> 0] : l \in IdLists}

\* what requests.get / raise_for_status / response.json() can produce
Responses(op, v) ==
  {[kind |-> k, data |-> NoPayload] : k \in {"network_error", "http_error", "not_json"}}
  \cup {[kind |-> "ok", data |-> p] : p \in Payloads(op, v)}

\* Ids are interchangeable: the first request of a behaviour addresses the
\* smallest id and is answered, in a list, with the smallest id first.
FirstPayload(p) == p.entries # <<>> => p.entries[1].id = MinOf(EntityIds)

\* only the transport is checked: no raise_for_status, no JSON error
RaisesOnNetworkOnly(resp) == resp.kind = "network_error"

\* requests.get raises on a network error, raise_for_status on a non-2xx
\* status, response.json() on a body that is not JSON
Raises(resp) == resp.kind # "ok"

(* --------------------------- rows and writes -------------------------- *)

\* every series row filed under the category of the request
NewRowOfArg(op, arg, e, rows) ==
  CASE op \in {"get_live_category", "get_film_categories", "get_series_category"} ->
         [category_id |-> e.id, v |-> e.v]
    [] op \in {"get_live_streams_by_category", "get_film_streams_by_category"} ->
         [stream_id |-> e.id, category_id |-> arg, v |-> e.v]
    [] op \in {"get_series_by_category", "get_all_series"} ->
         [series_id |-> e.id, category_id |-> arg, v |-> e.v]
    [] op = "get_series_streams_by_series" ->
         [id |-> NextId(rows), series_id |-> arg, season |-> e.season,
          episode |-> e.episode_num, v |-> e.v]
    [] OTHER ->
         [id |-> NextId(rows), stream_id |-> arg, epg_id |-> e.id, v |-> e.v]

\* the model object built from one payload entry
NewRow(op, arg, e, rows) ==
  CASE op \in {"get_live_category", "get_film_categories", "get_series_category"} ->
         [category_id |-> e.id, v |-> e.v]
    [] op \in {"get_live_streams_by_category", "get_film_streams_by_category"} ->
         [stream_id |-> e.id, category_id |-> arg, v |-> e.v]
    [] op = "get_series_by_category" ->
         [series_id |-> e.id, category_id |-> arg, v |-> e.v]
    [] op = "get_all_series" ->
         [series_id |-> e.id, category_id |-> e.category_id, v |-> e.v]
    [] op = "get_series_streams_by_series" ->
         [id |-> NextId(rows), series_id |-> arg, season |-> e.season,
          episode |-> e.episode_num, v |-> e.v]
    [] OTHER ->
         [id |-> NextId(rows), stream_id |-> arg, epg_id |-> e.id, v |-> e.v]

\* columns declared without unique=True
NoUniqueIndex(rows, row, table) == FALSE

\* a UNIQUE index rejects a row whose value is already in the table
UniqueViolation(rows, row, table) ==
  /\ UniqueColumn(table) # ""
  /\ \E x \in rows : x[UniqueColumn(table)] = row[UniqueColumn(table)]

\* a refresh that clears nothing before it inserts
DeleteNothing(op, arg, rows) == rows

\* a delete without its filter
DeleteAll(op, arg, rows) == {}

\* a delete of the first row of the scope only
DeleteFirst(op, arg, rows) ==
  IF InScope(op, arg, rows) = {} THEN rows
  ELSE rows \ {CHOOSE x \in InScope(op, arg, rows) : TRUE}

\* db.query(T).filter(...).delete(): remove the rows of the scope
DeleteScope(op, arg, rows) == rows \ InScope(op, arg, rows)

\* the INSERTs of a flush, in payload order; stops at the first that fails
\* (UNIQUE violation, or a store error at insert number kfail)
RECURSIVE FlushInserts(_, _, _, _, _, _)
FlushInserts(rows, op, arg, entries, i, kfail) ==
  IF i > Len(entries) THEN [ok |-> TRUE, rows |-> rows]
  ELSE LET row == NewRow(op, arg, entries[i], rows)
       IN IF i = kfail \/ UniqueViolation(rows, row, TableOf(op))
          THEN [ok |-> FALSE, rows |-> rows]
          ELSE FlushInserts(rows \cup {row}, op, arg, entries, i + 1, kfail)

\* a new RefreshData object that is never added to the session
TouchLoadedOnly(d, rec, key, ts) ==
  IF rec = NoRec \/ rec.last_refresh = ts THEN [ok |-> TRUE, d |-> d]
  ELSE [ok |-> TRUE,
        d |-> [d EXCEPT !.refresh_data =
                 {IF x.id = rec.id THEN [x EXCEPT !.last_refresh = ts] ELSE x
                    : x \in @}]]

\* "Update or create RefreshData": a session that found no record inserts
\* one, a session that loaded a record updates that row (the unit of work
\* emits no UPDATE for an attribute set to the value it was loaded with)
Touch(d, rec, key, ts) ==
  IF rec = NoRec
  THEN LET row == [id |-> NextId(d.refresh_data), data_type |-> key,
                   last_refresh |-> ts]
       IN IF UniqueViolation(d.refresh_data, row, "refresh_data")
          THEN [ok |-> FALSE, d |-> d]
          ELSE [ok |-> TRUE,
                d |-> [d EXCEPT !.refresh_data = @ \cup {row}]]
  ELSE IF rec.last_refresh = ts THEN [ok |-> TRUE, d |-> d]
  ELSE [ok |-> TRUE,
        d |-> [d EXCEPT !.refresh_data =
                 {IF x.id = rec.id THEN [x EXCEPT !.last_refresh = ts] ELSE x
                    : x \in @}]]

\* an episode refresh that inserts the Series row it does not find
CreateSeriesInfo(d, op, arg, info) ==
  IF op # "get_series_streams_by_series" THEN d
  ELSE IF \E x \in d.series : x.series_id = arg
  THEN [d EXCEPT !.series =
          {IF x.series_id = arg THEN [x EXCEPT !.v = info] ELSE x : x \in @}]
  ELSE [d EXCEPT !.series =
          @ \cup {[series_id |-> arg, category_id |-> 0, v |-> info]}]

\* "Update series info" of the episode refresh: the Series row of the
\* series, when there is one, takes the payload's info
UpdateSeriesInfo(d, op, arg, info) ==
  IF op = "get_series_streams_by_series"
  THEN [d EXCEPT !.series =
          {IF x.series_id = arg THEN [x EXCEPT !.v = info] ELSE x : x \in @}]
  ELSE d

\* "Update or create UserInfo / FilmDetail": the loaded row is updated in
\* place, a session that found none inserts one
Upsert(d, op, arg, obj, info) ==
  LET t == TableOf(op)
      row == IF op = "get_film_details"
             THEN [id |-> NextId(d[t]), stream_id |-> arg, v |-> info]
             ELSE [id |-> NextId(d[t]), v |-> info]
  IN IF obj = 0
     THEN IF UniqueViolation(d[t], row, t)
          THEN [ok |-> FALSE, d |-> d]
          ELSE [ok |-> TRUE, d |-> [d EXCEPT ![t] = @ \cup {row}]]
     ELSE [ok |-> TRUE,
           d |-> [d EXCEPT ![t] =
                    {IF x.id = obj THEN [x EXCEPT !.v = info] ELSE x : x \in @}]]

\* the unit of work of a refresh, applied to the committed store d:
\* delete, inserts (or upsert), series info, freshness record
UnitOfWork(d, s, kfail) ==
  LET t == TableOf(s.op)
      n == Len(s.payload.entries)
  IN IF s.op \in UpsertOps
     THEN LET u == Upsert(d, s.op, s.arg, s.obj, s.payload.info)
              w == Touch(u.d, s.rec, DataType(s.op, s.arg), s.ts)
          IN IF kfail = 1 \/ ~u.ok THEN [ok |-> FALSE, d |-> d]
             ELSE IF kfail = 2 \/ ~w.ok THEN [ok |-> FALSE, d |-> u.d]
             ELSE w
     ELSE LET d1 == [d EXCEPT ![t] = DeleteScope(s.op, s.arg, @)]
              f == FlushInserts(d1[t], s.op, s.arg, s.payload.entries, 1, kfail)
              d2 == [d1 EXCEPT ![t] = f.rows]
              d3 == UpdateSeriesInfo(d2, s.op, s.arg, s.payload.info)
              w == Touch(d3, s.rec, DataType(s.op, s.arg), s.ts)
          IN IF ~f.ok THEN [ok |-> FALSE, d |-> d2]
             ELSE IF kfail = n + 1 \/ ~w.ok THEN [ok |-> FALSE, d |-> d3]
             ELSE w

\* a read-back whose filter matches no row (an id compared with a string)
ReadBackNothing(op, arg, d) == [ok |-> TRUE, rows |-> {}]

\* "Fetch ... from database": the query that reads the rows of the scope
\* back.  The episode operation also loads the Series row and reads its
\* attributes, which raises AttributeError when there is no such row.
ReadBack(op, arg, d) ==
  IF op = "get_series_streams_by_series"
     /\ ~\E x \in d.series : x.series_id = arg
  THEN [ok |-> FALSE, rows |-> {}]
  ELSE [ok |-> TRUE, rows |-> Scope(op, arg, d)]

\* The list operations query their rows again after db.commit().  The
\* upserts return the object they hold; get_all_series only flushes, reads
\* its rows inside the transaction, and its caller commits.
ReadsAfterCommit(op) == op \in ListOps \ {"get_all_series"}

\* the write statements of a unit of work: the store errors it can meet
Writes(s) == IF s.op \in UpsertOps THEN 2 ELSE Len(s.payload.entries) + 1

\* a failed unit of work whose statements stay in the store
NoRollback(d, tx) == tx

\* db.rollback() / db.close(): the store is as it was before the
\* transaction began
Rollback(d, tx) == d

(* ------------------------------ requests ------------------------------ *)

\* what is remembered of the request that completed last: "refreshed"
\* when it was a non-forced call that fetched and succeeded, with the rows
\* it returned; "failed" when it ended in a fetch or store error, with the
\* rows that were stored when it began (both: while no other request ran)
NoCall == [op |-> "", arg |-> 0, kind |-> "", ts |-> 0, rows |-> {}]

Summary(s) ==
  IF s.alone /\ ~s.force /\ s.fetched /\ s.err = ""
  THEN [op |-> s.op, arg |-> s.arg, kind |-> "refreshed", ts |-> s.ts,
        rows |-> s.result]
  ELSE IF s.alone /\ s.err \in {"fetch", "store"}
  THEN [op |-> s.op, arg |-> s.arg, kind |-> "failed", ts |-> 0,
        rows |-> s.cached]
  ELSE NoCall

\* no shaping or page work in hand
NoView == [kind |-> "none"]

\* the operations that return (data, last_refresh, last_refresh + 24 h);
\* the lists of a category return the list alone
TripleOps ==
  {"get_user_info", "get_live_category", "get_series_category",
   "get_series_streams_by_series", "get_all_series", "get_film_categories",
   "get_film_details", "get_epg_info"}

\* the operations that call db.refresh(refresh_data) after db.commit();
\* in the others the commit leaves the record expired, and the return
\* statement loads it
RefreshesRecord(op) ==
  op \in {"get_user_info", "get_live_category", "get_series_category",
          "get_film_categories", "get_film_details"}

NoTimes == [fetchedAt |-> 0, expiresAt |-> 0]

\* an expiry computed from the time of the return
TimesFromNow(op, last_refresh, now) ==
  IF op \in TripleOps
  THEN [fetchedAt |-> last_refresh, expiresAt |-> now + TTL]
  ELSE NoTimes

\* refresh_data.last_refresh, refresh_data.last_refresh + timedelta(hours=24)
Times(op, last_refresh, now) ==
  IF op \in TripleOps
  THEN [fetchedAt |-> last_refresh, expiresAt |-> last_refresh + TTL]
  ELSE NoTimes

Idle ==
  [pc |-> "idle", op |-> "", arg |-> 0, force |-> FALSE, rec |-> NoRec,
   obj |-> 0, fetched |-> FALSE, upstream |-> "", payload |-> NoPayload,
   ts |-> 0, err |-> "", result |-> {}, cached |-> {}, alone |-> FALSE,
   again |-> FALSE, retry |-> FALSE, times |-> NoTimes]

\* after a commit or a rollback the session holds no pending object and
\* no loaded object any more
Flushed(s) == [s EXCEPT !.payload = NoPayload, !.rec = NoRec, !.obj = 0]

Init ==
  /\ focus \in Families
  /\ clock = 0
  /\ db = EmptyDb
  /\ lock = 0
  /\ sess = [r \in Sessions |-> Idle]
  /\ ncalls = 0
  /\ noverlap = 0
  /\ prev = NoCall
  /\ view = NoView

Quiet(r) == \A q \in Sessions \ {r} : sess[q].pc = "idle"

\* a request that has produced its response or its error is closed before
\* anything else happens
Closing == \E q \in Sessions : sess[q].pc \in {"done", "failed"}

\* requests that overlap are requests for the same resource key
SameKey(r, op, arg) ==
  \A q \in Sessions \ {r} :
    sess[q].pc # "idle" => sess[q].op = op /\ sess[q].arg = arg

\* time passes
Tick ==
  /\ ~Closing
  /\ clock < MaxTicks * ClockStep
  /\ clock' = clock + ClockStep
  /\ UNCHANGED <<view, focus, db, lock, sess, ncalls, noverlap, prev>>


\* Entry of an operation up to the end of the upstream fetch: the session
\* loads the freshness record (and the detail row), decides, and fetches;
\* a request that does not fetch reads the stored rows and returns.
Call(r, op, arg, force) ==
  /\ sess[r].pc = "idle"
  /\ ~Closing
  /\ \A q \in Sessions : q < r => sess[q].pc # "idle"
  /\ ncalls < MaxCalls
  /\ Quiet(r) \/ (noverlap < MaxOverlap /\ SameKey(r, op, arg))
  /\ focus \in FamiliesOf(op)
  /\ arg \in Args(op)
  /\ ncalls = 0 /\ op # "get_series_streams_by_series" => arg = MinOf(Args(op))
  /\ focus = "series_episodes" /\ op = "get_series_by_category"
       => arg = MinOf(Args(op))
  /\ ncalls' = ncalls + 1
  /\ noverlap' = IF Quiet(r) THEN noverlap ELSE noverlap + 1
  /\ LET rec == FirstRefreshData(db, DataType(op, arg))
         rows == Scope(op, arg, db)
         stale == MustFetch(op, arg, force, db, clock)
         base == [Idle EXCEPT
                    !.op = op, !.arg = arg, !.force = force, !.rec = rec,
                    !.obj = IF op \in UpsertOps /\ rows # {}
                            THEN MinOf({x.id : x \in rows}) ELSE 0,
                    !.fetched = stale,
                    !.cached = IF stale /\ Quiet(r) THEN rows ELSE {},
                    !.alone = Quiet(r),
                    !.again = /\ Quiet(r) /\ ~force
                              /\ prev.op = op /\ prev.arg = arg
                              /\ prev.kind = "refreshed"
                              /\ clock - prev.ts < TTL,
                    !.retry = /\ Quiet(r) /\ ~force
                              /\ prev.op = op /\ prev.arg = arg
                              /\ prev.kind = "failed"]
         others == [q \in Sessions |->
                      IF sess[q].pc = "idle" THEN sess[q]
                      ELSE [sess[q] EXCEPT !.alone = FALSE, !.cached = {}]]
     IN IF stale
        THEN \E resp \in Responses(op, ncalls + 1) :
               /\ ncalls = 0 => FirstPayload(resp.data)
               /\ sess' = [others EXCEPT ![r] =
                          IF Raises(resp)
                          THEN [base EXCEPT !.pc = "failed", !.err = "fetch",
                                            !.upstream = resp.kind]
                          ELSE [base EXCEPT !.pc = IF op \in UpsertOps
                                                    THEN "commit" ELSE "write",
                                            !.ts = IF op \in UpsertOps
                                                    THEN clock ELSE 0,
                                            !.upstream = resp.kind,
                                            !.payload = resp.data]]
        ELSE sess' = [others EXCEPT ![r] =
                        IF ReadBack(op, arg, db).ok
                        THEN [base EXCEPT !.pc = "done", !.rec = NoRec, !.obj = 0,
                                          !.result = ReadBack(op, arg, db).rows,
                                          !.times = Times(op, rec.last_refresh, clock)]
                        ELSE [base EXCEPT !.pc = "failed", !.rec = NoRec,
                                          !.err = "no_series"]]
  /\ prev' = IF Quiet(r) THEN prev ELSE NoCall
  /\ UNCHANGED <<view, focus, clock, db, lock>>

get_user_info(r) == \E force \in BOOLEAN : Call(r, "get_user_info", 0, force)

get_live_category(r) == \E force \in BOOLEAN : Call(r, "get_live_category", 0, force)

get_live_streams_by_category(r) ==
  \E c \in CategoryIds, force \in BOOLEAN :
    Call(r, "get_live_streams_by_category", c, force)

get_series_category(r) == \E force \in BOOLEAN : Call(r, "get_series_category", 0, force)

get_series_by_category(r) ==
  \E c \in CategoryIds, force \in BOOLEAN :
    Call(r, "get_series_by_category", c, force)

get_series_streams_by_series(r) ==
  \E i \in EntityIds, force \in BOOLEAN :
    Call(r, "get_series_streams_by_series", i, force)

get_all_series(r) == \E force \in BOOLEAN : Call(r, "get_all_series", 0, force)

get_film_categories(r) == \E force \in BOOLEAN : Call(r, "get_film_categories", 0, force)

get_film_streams_by_category(r) ==
  \E c \in CategoryIds, force \in BOOLEAN :
    Call(r, "get_film_streams_by_category", c, force)

get_film_details(r) ==
  \E i \in EntityIds, force \in BOOLEAN : Call(r, "get_film_details", i, force)

\* the request may carry force_refresh=true; the operation has no such
\* parameter and the handlers do not pass one
get_epg_info(r) ==
  \E i \in EntityIds, force \in BOOLEAN : Call(r, "get_epg_info", i, force)

\* A list refresh executes its DELETE, which takes the SQLite write lock,
\* and then reads the clock for the freshness record.  (An upsert refresh
\* fills its objects in memory and reads the clock without touching the
\* store: that is part of Call.)  A DELETE that finds the lock taken
\* waits, or gives up with "database is locked".
Write(r) ==
  /\ sess[r].pc = "write"
  /\ ~Closing
  /\ \/ /\ lock = 0
        /\ lock' = r
        /\ sess' = [sess EXCEPT ![r].pc = "commit", ![r].ts = clock]
     \/ /\ lock # 0
        /\ lock' = lock
        /\ sess' = [sess EXCEPT ![r] = [Flushed(@) EXCEPT
                      !.pc = "failed", !.err = "locked"]]
  /\ UNCHANGED <<view, focus, clock, db, ncalls, noverlap, prev>>

\* db.commit(): the flush sends the INSERTs and UPDATEs, then the
\* transaction commits.  A failing statement rolls the transaction back.
Commit(r) ==
  /\ sess[r].pc = "commit"
  /\ ~Closing
  /\ \/ /\ lock \in {0, r}
        /\ \E kfail \in 0..Writes(sess[r]) :
             LET u == UnitOfWork(db, sess[r], kfail)
             IN IF u.ok
                THEN /\ db' = u.d
                     /\ sess' = [sess EXCEPT ![r] = [Flushed(@) EXCEPT
                                   !.cached = {},
                                   !.pc =
                                     IF ReadsAfterCommit(sess[r].op)
                                     THEN "read" ELSE "done",
                                   !.result =
                                     IF ReadsAfterCommit(sess[r].op)
                                     THEN {} ELSE Scope(sess[r].op, sess[r].arg, u.d),
                                   !.times =
                                     IF RefreshesRecord(sess[r].op)
                                     THEN Times(sess[r].op,
                                                FirstRefreshData(u.d, DataType(sess[r].op, sess[r].arg)).last_refresh,
                                                clock)
                                     ELSE IF ReadsAfterCommit(sess[r].op)
                                     THEN NoTimes
                                     ELSE Times(sess[r].op, sess[r].ts, clock)]]
                ELSE /\ db' = Rollback(db, u.d)
                     /\ sess' = [sess EXCEPT ![r] = [Flushed(@) EXCEPT
                                   !.pc = "failed", !.err = "store"]]
        /\ lock' = 0
     \/ /\ lock \notin {0, r}
        /\ lock' = lock
        /\ db' = db
        /\ sess' = [sess EXCEPT ![r] = [Flushed(@) EXCEPT
                      !.pc = "failed", !.err = "locked"]]
  /\ UNCHANGED <<view, focus, clock, ncalls, noverlap, prev>>

\* the read-back of a list operation after its commit
Read(r) ==
  /\ sess[r].pc = "read"
  /\ ~Closing
  /\ LET rb == ReadBack(sess[r].op, sess[r].arg, db)
     IN sess' = [sess EXCEPT ![r].pc = IF rb.ok THEN "done" ELSE "failed",
                             ![r].err = IF rb.ok THEN "" ELSE "no_series",
                             ![r].result = rb.rows,
                             ![r].times =
                               IF ~rb.ok \/ RefreshesRecord(sess[r].op) THEN @
                               ELSE Times(sess[r].op,
                                          FirstRefreshData(db, DataType(sess[r].op, sess[r].arg)).last_refresh,
                                          clock)]
  /\ UNCHANGED <<view, focus, clock, db, lock, ncalls, noverlap, prev>>

\* get_db: the request is over, the session is rolled back and closed
Close(r) ==
  /\ sess[r].pc \in {"done", "failed"}
  /\ sess' = [sess EXCEPT ![r] = Idle]
  /\ lock' = IF lock = r THEN 0 ELSE lock
  /\ prev' = Summary(sess[r])
  /\ UNCHANGED <<view, focus, clock, db, ncalls, noverlap>>

Next ==
  \/ Tick
  \/ \E r \in Sessions : get_user_info(r)
  \/ \E r \in Sessions : get_live_category(r)
  \/ \E r \in Sessions : get_live_streams_by_category(r)
  \/ \E r \in Sessions : get_series_category(r)
  \/ \E r \in Sessions : get_series_by_category(r)
  \/ \E r \in Sessions : get_series_streams_by_series(r)
  \/ \E r \in Sessions : get_all_series(r)
  \/ \E r \in Sessions : get_film_categories(r)
  \/ \E r \in Sessions : get_film_streams_by_category(r)
  \/ \E r \in Sessions : get_film_details(r)
  \/ \E r \in Sessions : get_epg_info(r)
  \/ \E r \in Sessions : Write(r)
  \/ \E r \in Sessions : Commit(r)
  \/ \E r \in Sessions : Read(r)
  \/ \E r \in Sessions : Close(r)

Spec == Init /\ [][Next]_vars

(* ------------------- the detail operations on a found store ----------- *)

\* The store is a file that outlives the process.  get_user_info and
\* _get_film_details_from_db provide for a store in which the freshness
\* record of their key is present and the row is not ("or not user_info",
\* "or not film_detail"); no operation of the program removes such a row,
\* so that store is one the program is started on.
DetailFamilies == {"account", "film_details"}

DetailKeys(f) ==
  IF f = "account" THEN {DataType("get_user_info", 0)}
  ELSE {DataType("get_film_details", i) : i \in EntityIds}

RECURSIVE RecordsOf(_, _)
RecordsOf(keys, n) ==
  IF keys = {} THEN {}
  ELSE LET k == CHOOSE x \in keys : TRUE
       IN {[id |-> n, data_type |-> k, last_refresh |-> 0]}
            \cup RecordsOf(keys \ {k}, n + 1)

\* the stores found at start: no row, and a record stamped at hour 0 for
\* some of the detail keys
FoundStores(f) ==
  {[EmptyDb EXCEPT !.refresh_data = RecordsOf(ks, 1)] : ks \in SUBSET DetailKeys(f)}

InitDetail ==
  /\ focus \in DetailFamilies
  /\ clock = 0
  /\ db \in FoundStores(focus)
  /\ lock = 0
  /\ sess = [r \in Sessions |-> Idle]
  /\ ncalls = 0
  /\ noverlap = 0
  /\ prev = NoCall
  /\ view = NoView

NextDetail ==
  \/ Tick
  \/ \E r \in Sessions : get_user_info(r)
  \/ \E r \in Sessions : get_film_details(r)
  \/ \E r \in Sessions : Commit(r)
  \/ \E r \in Sessions : Close(r)

SpecDetail == InitDetail /\ [][NextDetail]_vars

(* ----------------------- EPG text: base64, UTF-8 ---------------------- *)

\* A character of a stored title or description is written as its value
\* in the base64 alphabet (table_a2b_base64: 'A' is 0, 'Q' is 16, '/' is
\* 63), as Pad for '=', or as Junk for a character outside the alphabet.
\* A byte is a number below 256, a text a sequence of code points.
Pad == 64
Junk == 65
Replacement == 65533

\* str.encode("utf-8") of one code point, and of a text
Utf8OfCodePoint(c) ==
  IF c < 128 THEN <<c>>
  ELSE IF c < 2048 THEN <<192 + (c \div 64), 128 + (c % 64)>>
  ELSE IF c < 65536
       THEN <<224 + (c \div 4096), 128 + ((c \div 64) % 64), 128 + (c % 64)>>
  ELSE <<240 + (c \div 262144), 128 + ((c \div 4096) % 64),
         128 + ((c \div 64) % 64), 128 + (c % 64)>>

RECURSIVE Utf8Encode(_)
Utf8Encode(text) ==
  IF text = <<>> THEN <<>>
  ELSE Utf8OfCodePoint(Head(text)) \o Utf8Encode(Tail(text))

\* the provider's base64.b64encode: three bytes to four characters, the
\* last group padded with '='
RECURSIVE B64Encode(_)
B64Encode(bytes) ==
  IF bytes = <<>> THEN <<>>
  ELSE IF Len(bytes) = 1
       THEN <<(bytes[1] \div 4), (bytes[1] % 4) * 16, Pad, Pad>>
  ELSE IF Len(bytes) = 2
       THEN <<(bytes[1] \div 4), (bytes[1] % 4) * 16 + (bytes[2] \div 16),
              (bytes[2] % 16) * 4, Pad>>
  ELSE <<(bytes[1] \div 4), (bytes[1] % 4) * 16 + (bytes[2] \div 16),
         (bytes[2] % 16) * 4 + (bytes[3] \div 64), (bytes[3] % 64)>>
         \o B64Encode(SubSeq(bytes, 4, Len(bytes)))

\* base64.b64decode(s) with validate=False (binascii.a2b_base64): skips
\* characters outside the alphabet, stops at the padding that completes a
\* group, and raises binascii.Error when the characters end inside a group
RECURSIVE A2bBase64(_, _, _, _, _, _)
A2bBase64(chars, i, quad_pos, leftchar, pads, out) ==
  IF i > Len(chars) THEN [ok |-> quad_pos = 0, bytes |-> out]
  ELSE LET c == chars[i]
       IN IF c = Pad
          THEN IF quad_pos >= 2 /\ quad_pos + pads + 1 >= 4
               THEN [ok |-> TRUE, bytes |-> out]
               ELSE A2bBase64(chars, i + 1, quad_pos, leftchar,
                              IF quad_pos >= 2 THEN pads + 1 ELSE pads, out)
          ELSE IF c = Junk
          THEN A2bBase64(chars, i + 1, quad_pos, leftchar, pads, out)
          ELSE CASE quad_pos = 0 ->
                      A2bBase64(chars, i + 1, 1, c, 0, out)
                 [] quad_pos = 1 ->
                      A2bBase64(chars, i + 1, 2, (c % 16), 0,
                                Append(out, leftchar * 4 + (c \div 16)))
                 [] quad_pos = 2 ->
                      A2bBase64(chars, i + 1, 3, (c % 4), 0,
                                Append(out, leftchar * 16 + (c \div 4)))
                 [] OTHER ->
                      A2bBase64(chars, i + 1, 0, 0, 0,
                                Append(out, leftchar * 64 + c))

\* a decoder that takes the six bits of each character for a byte
b64decodeSextets(chars) ==
  [ok |-> TRUE, bytes |-> SelectSeq(chars, LAMBDA c : c < Pad)]

b64decode(chars) == A2bBase64(chars, 1, 0, 0, 0, <<>>)

IsContinuation(bytes, i, lo, hi) ==
  i <= Len(bytes) /\ bytes[i] >= lo /\ bytes[i] <= hi

\* bytes.decode("utf-8", errors="replace"): each byte sequence that is not
\* well-formed UTF-8 (its longest prefix that could begin one) becomes
\* U+FFFD, and decoding resumes after it
RECURSIVE Utf8DecodeReplace(_, _)
Utf8DecodeReplace(bytes, i) ==
  IF i > Len(bytes) THEN <<>>
  ELSE LET c == bytes[i]
           lo2 == IF c = 224 THEN 160 ELSE IF c = 240 THEN 144 ELSE 128
           hi2 == IF c = 237 THEN 159 ELSE IF c = 244 THEN 143 ELSE 191
       IN IF c < 128 THEN <<c>> \o Utf8DecodeReplace(bytes, i + 1)
          ELSE IF c < 194 \/ c > 244
          THEN <<Replacement>> \o Utf8DecodeReplace(bytes, i + 1)
          ELSE IF ~IsContinuation(bytes, i + 1, lo2, hi2)
          THEN <<Replacement>> \o Utf8DecodeReplace(bytes, i + 1)
          ELSE IF c < 224
          THEN <<(c - 192) * 64 + (bytes[i + 1] - 128)>>
                 \o Utf8DecodeReplace(bytes, i + 2)
          ELSE IF ~IsContinuation(bytes, i + 2, 128, 191)
          THEN <<Replacement>> \o Utf8DecodeReplace(bytes, i + 2)
          ELSE IF c < 240
          THEN <<(c - 224) * 4096 + (bytes[i + 1] - 128) * 64
                   + (bytes[i + 2] - 128)>>
                 \o Utf8DecodeReplace(bytes, i + 3)
          ELSE IF ~IsContinuation(bytes, i + 3, 128, 191)
          THEN <<Replacement>> \o Utf8DecodeReplace(bytes, i + 3)
          ELSE <<(c - 240) * 262144 + (bytes[i + 1] - 128) * 4096
                   + (bytes[i + 2] - 128) * 64 + (bytes[i + 3] - 128)>>
                 \o Utf8DecodeReplace(bytes, i + 4)

\* base64.b64decode(column.encode()).decode("utf-8", errors="replace")
DecodeColumn(chars) ==
  LET b == b64decode(chars)
  IN IF b.ok THEN [ok |-> TRUE, text |-> Utf8DecodeReplace(b.bytes, 1)]
     ELSE [ok |-> FALSE, text |-> <<>>]

\* bounds of the EPG texts: code points of a plain text, characters of a
\* title and of a description taken as they come, shapings of one listing
MaxText == 2
MaxTitle == 4
MaxDescription == 2
MaxReads == 2

\* 'A', e acute, the euro sign: one, two and three bytes of UTF-8
CodePoints == {65, 233, 8364}

\* 'Q', '/', '=', and a character outside the alphabet
ColumnChars == {16, 63, Pad, Junk}

SeqsUpTo(S, n) == UNION {[1..k -> S] : k \in 0..n}

Texts == SeqsUpTo(CodePoints, MaxText)

\* what the provider sends for one listing: the base64 of two plain
\* texts, or any two strings
UpstreamListings ==
  {[title |-> B64Encode(Utf8Encode(t)), description |-> B64Encode(Utf8Encode(d))] :
     t \in Texts, d \in Texts}
  \cup {[title |-> t, description |-> d] :
          t \in SeqsUpTo(ColumnChars, MaxTitle),
          d \in SeqsUpTo(ColumnChars, MaxDescription)}

NoListing == [title |-> <<Junk>>, description |-> <<Junk>>]

NoShape == [title |-> <<>>, description |-> <<>>]

mainvars == <<focus, clock, db, lock, sess, ncalls, noverlap, prev>>

InitEpg ==
  /\ focus = "epg"
  /\ clock = 0
  /\ db = EmptyDb
  /\ lock = 0
  /\ sess = [r \in Sessions |-> Idle]
  /\ ncalls = 0
  /\ noverlap = 0
  /\ prev = NoCall
  /\ view \in {[kind |-> "epg", pc |-> "fetched", upstream |-> l,
                stored |-> NoListing, shaped |-> NoShape, reads |-> 0] :
                 l \in UpstreamListings}

\* new_listing = EpgListing(title=listing["title"], ...,
\* description=listing["description"], ...): the columns take the strings
\* of the payload
StoreEpgListing ==
  /\ view.kind = "epg"
  /\ view.pc = "fetched"
  /\ view' = [view EXCEPT !.pc = "stored",
                          !.stored = [title |-> view.upstream.title,
                                      description |-> view.upstream.description]]
  /\ UNCHANGED mainvars

\* _process_epg_listings on the stored listing: both columns are decoded
\* into the entry of the response; binascii.Error is not caught
process_epg_listings ==
  /\ view.kind = "epg"
  /\ view.pc \in {"stored", "shaped", "failed"}
  /\ view.reads < MaxReads
  /\ LET t == DecodeColumn(view.stored.title)
         d == DecodeColumn(view.stored.description)
     IN view' = [view EXCEPT
                   !.reads = @ + 1,
                   !.pc = IF t.ok /\ d.ok THEN "shaped" ELSE "failed",
                   !.shaped = IF t.ok /\ d.ok
                              THEN [title |-> t.text, description |-> d.text]
                              ELSE NoShape]
  /\ UNCHANGED mainvars

NextEpg == StoreEpgListing \/ process_epg_listings

SpecEpg == InitEpg /\ [][NextEpg]_vars

(* ------------------------------ play links --------------------------- *)

\* refreshes of one scope in a behaviour, entries of a payload
MaxRefreshes == 2
MaxEntries == 2

ConnectionInfos ==
  {[base_url |-> "http://x.tv", username |-> "u", password |-> "p"],
   [base_url |-> "https://tv.example:8080", username |-> "bob", password |-> "s3"]}

\* ids the provider assigns to streams and episodes; container extensions
ProviderIds == {42, 7}
Extensions == {"mp4", "mkv"}

\* the operations that build a play link
LinkOps ==
  {"get_live_streams_by_category", "get_film_streams_by_category",
   "get_film_details", "get_series_streams_by_series"}

\* the entries of a payload: a stream or an episode with the provider's
\* id; an episode is number 1 of the season numbered by its position
LinkEntries == [id : ProviderIds, container_extension : Extensions]

DistinctIds(l) == \A i, j \in 1..Len(l) : l[i].id = l[j].id => i = j

LinkPayloads(op, arg) ==
  IF op = "get_film_details"
  THEN {<<e>> : e \in {x \in LinkEntries : x.id = arg}}
  ELSE {l \in SeqsUpTo(LinkEntries, MaxEntries) : DistinctIds(l)}

\* the object added for entry i of a payload; the primary key is given by
\* SQLite.  A stream keeps the provider's stream_id; a SeriesEpisode has
\* series_id, season and episode, and no column for the provider's id
LinkRow(op, arg, l, i, rows) ==
  IF op = "get_series_streams_by_series"
  THEN [id |-> NextId(rows), scope |-> arg, season |-> i, episode |-> 1,
        container_extension |-> l[i].container_extension]
  ELSE [id |-> NextId(rows), scope |-> arg, stream_id |-> l[i].id,
        container_extension |-> l[i].container_extension]

RECURSIVE AddLinkRows(_, _, _, _, _)
AddLinkRows(op, arg, l, i, rows) ==
  IF i > Len(l) THEN rows
  ELSE AddLinkRows(op, arg, l, i + 1, rows \cup {LinkRow(op, arg, l, i, rows)})

\* the refresh of a scope: a list deletes the rows of the scope and adds
\* one per entry; the film detail updates its row, or creates it with
\* stream_id=vod_id
RefreshLinkRows(op, arg, l, rows) ==
  IF op = "get_film_details" /\ \E x \in rows : x.stream_id = arg
  THEN {IF x.stream_id = arg
        THEN [x EXCEPT !.container_extension = l[1].container_extension]
        ELSE x : x \in rows}
  ELSE AddLinkRows(op, arg, l, 1, {x \in rows : x.scope # arg})

\* every link built from the primary key of the row
LinkIdOfRow(op, row) == row.id

\* the id a play link is built from: stream.stream_id, channel.stream_id,
\* film_detail.stream_id; for an episode episode_dict["id"], which is
\* str(episode.id)
LinkId(op, row) ==
  IF op = "get_series_streams_by_series" THEN row.id ELSE row.stream_id

LinkSegment(op) ==
  CASE op = "get_live_streams_by_category" -> "/live/"
    [] op = "get_series_streams_by_series" -> "/series/"
    [] OTHER -> "/movie/"

LinkExtension(op, row) ==
  IF op = "get_live_streams_by_category" THEN "ts" ELSE row.container_extension

\* f"{base_url}/movie/{username}/{password}/{stream_id}.{container_extension}"
PlayLink(conn, segment, id, ext) ==
  conn.base_url \o segment \o conn.username \o "/" \o conn.password \o "/"
    \o ToString(id) \o "." \o ext

\* the dictionaries of the response, one per row of the scope
ShapedLinks(conn, op, arg, rows) ==
  {[id |-> LinkId(op, x),
    season |-> IF op = "get_series_streams_by_series" THEN x.season ELSE 0,
    play_link |-> PlayLink(conn, LinkSegment(op), LinkId(op, x),
                           LinkExtension(op, x))] :
     x \in {y \in rows : y.scope = arg}}

\* the rows found in the table: none, or rows of another scope (another
\* category, film or series), which hold the first primary keys
OtherScope == 99

FoundLinkRows ==
  {{}}
  \cup {{[id |-> 1, scope |-> OtherScope, stream_id |-> 1000, season |-> 1,
          episode |-> 1, container_extension |-> "avi"]}}
  \cup {{[id |-> k, scope |-> OtherScope, stream_id |-> 1000 + k, season |-> 1,
          episode |-> k, container_extension |-> "avi"] : k \in 1..2}}

InitLinks ==
  /\ focus = "film_streams"
  /\ clock = 0
  /\ db = EmptyDb
  /\ lock = 0
  /\ sess = [r \in Sessions |-> Idle]
  /\ ncalls = 0
  /\ noverlap = 0
  /\ prev = NoCall
  /\ view \in {[kind |-> "links", pc |-> "idle", conn |-> c, op |-> op,
                arg |-> a, rows |-> rows, payload |-> <<>>, shaped |-> {},
                refreshes |-> 0] :
                 c \in ConnectionInfos, op \in LinkOps, a \in ProviderIds,
                 rows \in FoundLinkRows}

\* the refresh branch of a link operation, answered with payload l
RefreshLinks ==
  /\ view.kind = "links"
  /\ view.pc \in {"idle", "shaped"}
  /\ view.refreshes < MaxRefreshes
  /\ \E l \in LinkPayloads(view.op, view.arg) :
       view' = [view EXCEPT
                  !.pc = "stored",
                  !.payload = l,
                  !.refreshes = @ + 1,
                  !.rows = RefreshLinkRows(view.op, view.arg, l, view.rows)]
  /\ UNCHANGED mainvars

\* "Convert ... objects to dictionary and add computed fields"
ShapeLinks ==
  /\ view.kind = "links"
  /\ view.pc = "stored"
  /\ view' = [view EXCEPT
                !.pc = "shaped",
                !.shaped = ShapedLinks(view.conn, view.op, view.arg, view.rows)]
  /\ UNCHANGED mainvars

NextLinks == RefreshLinks \/ ShapeLinks

SpecLinks == InitLinks /\ [][NextLinks]_vars

(* ------------------------- icons and backdrops ------------------------ *)

\* calls of the caching functions in a behaviour, rows of a shaped list
MaxIconCalls == 2
MaxIcons == 2

IconUrls == {"http://img/a", "http://img/b"}

\* An argument of cache_icon / cache_backdrop: None, a string (possibly
\* empty), or a list of strings, written as a kind and the strings.
NoneArg == [kind |-> "none", items |-> <<>>]
StrArgs == {[kind |-> "str", items |-> <<u>>] : u \in IconUrls \cup {""}}
ListArgs == {[kind |-> "list", items |-> l] : l \in SeqsUpTo(IconUrls, 2)}

\* hashlib.md5(url.encode()).hexdigest() + ext, in ICONS_DIR
Filename(url, ext) == [md5 |-> url, ext |-> ext]

NoFile == [md5 |-> "", ext |-> ""]

\* requests.get + raise_for_status on the asset, and the write of the file
NetOutcomes == {"ok", "request_exception"}
DiskOutcomes == {"ok", "open_fails", "write_fails"}

\* The download of url into file f, as both functions do it: a
\* RequestException (also MissingSchema for an empty url) is caught and
\* answered with None; an OSError of open() or write() is not caught, and
\* a write that fails leaves the file it has opened.
Download(url, f, disk, net, io) ==
  IF f \in disk THEN [raised |-> "", result |-> f, disk |-> disk]
  ELSE IF url = "" \/ net # "ok"
  THEN [raised |-> "", result |-> NoFile, disk |-> disk]
  ELSE IF io = "ok" THEN [raised |-> "", result |-> f, disk |-> disk \cup {f}]
  ELSE IF io = "open_fails"
  THEN [raised |-> "OSError", result |-> NoFile, disk |-> disk]
  ELSE [raised |-> "OSError", result |-> NoFile, disk |-> disk \cup {f}]

\* cache_icon(icon_url): icon_url.encode() raises AttributeError on None
CacheIcon(arg, disk, net, io) ==
  IF arg.kind = "none"
  THEN [raised |-> "AttributeError", result |-> NoFile, disk |-> disk]
  ELSE Download(arg.items[1], Filename(arg.items[1], ".png"), disk, net, io)

\* cache_backdrop(backdrop_path): None, "" and [] give None; a list gives
\* its first item
CacheBackdrop(arg, disk, net, io) ==
  IF arg.items = <<>> \/ arg.items[1] = ""
  THEN [raised |-> "", result |-> NoFile, disk |-> disk]
  ELSE Download(arg.items[1], Filename(arg.items[1], ".jpg"), disk, net, io)

\* the loop that shapes the rows of a list: "cached_icon":
\* cache_icon(channel.stream_icon) for each row in turn; an exception
\* leaves the loop and the operation
RECURSIVE CacheIconsOfRows(_, _, _, _, _)
CacheIconsOfRows(args, outs, i, disk, acc) ==
  IF i > Len(args) THEN [raised |-> "", results |-> acc, disk |-> disk]
  ELSE LET c == CacheIcon(args[i], disk, outs[i].net, outs[i].io)
       IN IF c.raised # ""
          THEN [raised |-> c.raised, results |-> acc, disk |-> c.disk]
          ELSE CacheIconsOfRows(args, outs, i + 1, c.disk, Append(acc, c.result))

InitIcons ==
  /\ focus = "live_channels"
  /\ clock = 0
  /\ db = EmptyDb
  /\ lock = 0
  /\ sess = [r \in Sessions |-> Idle]
  /\ ncalls = 0
  /\ noverlap = 0
  /\ prev = NoCall
  /\ view \in {[kind |-> "icons", fn |-> "", args |-> <<>>, raised |-> "",
                results |-> <<>>, calls |-> 0, disk |-> d] :
                 d \in SUBSET {Filename(u, ".png") : u \in IconUrls}}

cache_icon ==
  /\ view.kind = "icons"
  /\ view.calls < MaxIconCalls
  /\ \E arg \in {NoneArg} \cup StrArgs, net \in NetOutcomes, io \in DiskOutcomes :
       LET c == CacheIcon(arg, view.disk, net, io)
       IN view' = [view EXCEPT
                     !.fn = "cache_icon", !.args = <<arg>>, !.calls = @ + 1,
                     !.raised = c.raised, !.results = <<c.result>>,
                     !.disk = c.disk]
  /\ UNCHANGED mainvars

cache_backdrop ==
  /\ view.kind = "icons"
  /\ view.calls < MaxIconCalls
  /\ \E arg \in {NoneArg} \cup StrArgs \cup ListArgs,
        net \in NetOutcomes, io \in DiskOutcomes :
       LET c == CacheBackdrop(arg, view.disk, net, io)
       IN view' = [view EXCEPT
                     !.fn = "cache_backdrop", !.args = <<arg>>, !.calls = @ + 1,
                     !.raised = c.raised, !.results = <<c.result>>,
                     !.disk = c.disk]
  /\ UNCHANGED mainvars

\* the shaping of the rows of a list operation (channels, films, series)
ShapeRowsWithIcons ==
  /\ view.kind = "icons"
  /\ view.calls < MaxIconCalls
  /\ \E n \in 1..MaxIcons :
       \E args \in [1..n -> {NoneArg} \cup StrArgs],
          outs \in [1..n -> [net : NetOutcomes, io : DiskOutcomes]] :
         LET c == CacheIconsOfRows(args, outs, 1, view.disk, <<>>)
         IN view' = [view EXCEPT
                       !.fn = "list", !.args = args, !.calls = @ + 1,
                       !.raised = c.raised, !.results = c.results,
                       !.disk = c.disk]
  /\ UNCHANGED mainvars

NextIcons == cache_icon \/ cache_backdrop \/ ShapeRowsWithIcons

SpecIcons == InitIcons /\ [][NextIcons]_vars

(* ----------------------------- page handlers -------------------------- *)

\* requests answered without a call of the client, in a behaviour
MaxRejected == 2

\* get_current_user: None without a valid token, else the User row
Callers == {"anonymous", "user"}

\* the families of the handlers modelled: "/" and "/epg/{stream_id}"
PageFamilies == {"account", "epg"}

\* user_has_series_access: 403 for no user; the User model has no
\* series_access attribute, so reading it raises for every user
user_has_series_access(caller) ==
  IF caller = "anonymous" THEN 403 ELSE 500

InitPages ==
  /\ focus \in PageFamilies
  /\ clock = 0
  /\ db = EmptyDb
  /\ lock = 0
  /\ sess = [r \in Sessions |-> Idle]
  /\ ncalls = 0
  /\ noverlap = 0
  /\ prev = NoCall
  /\ view \in {[kind |-> "pages", caller |-> c, status |-> 0, rejected |-> 0] :
                 c \in Callers}

\* GET /: client.get_user_info(connection_info, force_refresh, db) is
\* called first; "if not current_user" follows the call
read_root(r) == \E force \in BOOLEAN : Call(r, "get_user_info", 0, force)

\* GET /epg/{stream_id}, and every handler written the same way: "if not
\* current_user: return RedirectResponse" comes before the client is called
get_epg(r) ==
  /\ view.caller # "anonymous"
  /\ \E i \in EntityIds : Call(r, "get_epg_info", i, FALSE)

\* the redirect of such a handler
RedirectToLogin ==
  /\ view.kind = "pages"
  /\ view.caller = "anonymous"
  /\ focus # "account"
  /\ ~Closing
  /\ view.rejected < MaxRejected
  /\ view' = [view EXCEPT !.status = 307, !.rejected = @ + 1]
  /\ UNCHANGED mainvars

\* GET /series of routes/series.py: the dependency raises before the
\* handler is entered
series_page ==
  /\ view.kind = "pages"
  /\ ~Closing
  /\ view.rejected < MaxRejected
  /\ view' = [view EXCEPT !.status = user_has_series_access(view.caller),
                          !.rejected = @ + 1]
  /\ UNCHANGED mainvars

NextPages ==
  \/ Tick
  \/ \E r \in Sessions : read_root(r)
  \/ \E r \in Sessions : get_epg(r)
  \/ RedirectToLogin
  \/ series_page
  \/ \E r \in Sessions : Write(r)
  \/ \E r \in Sessions : Commit(r)
  \/ \E r \in Sessions : Read(r)
  \/ \E r \in Sessions : Close(r)

SpecPages == InitPages /\ [][NextPages]_vars

(* --------------------------- seasons of a series ---------------------- *)

\* seasons in a payload, episodes of one season
MaxSeasons == 3
MaxEpisodes == 2

SeasonNumbers == 1..MaxSeasons

\* data["episodes"]: a JSON object whose keys are season numbers, in the
\* order the provider wrote them, each with its list of episodes
SeasonPayloads ==
  {l \in SeqsUpTo([season : SeasonNumbers, count : 1..MaxEpisodes], MaxSeasons) :
     \A i, j \in 1..Len(l) : l[i].season = l[j].season => i = j}

\* "for season, episodes in data.get("episodes", {}).items(): for episode
\* in episodes: db.add(SeriesEpisode(...))": one row per episode, primary
\* keys in the order of the payload
RECURSIVE EpisodeRows(_, _, _, _)
EpisodeRows(l, i, k, rows) ==
  IF i > Len(l) THEN rows
  ELSE IF k > l[i].count THEN EpisodeRows(l, i + 1, 1, rows)
  ELSE EpisodeRows(l, i, k + 1,
         Append(rows, [id |-> Len(rows) + 1, season |-> l[i].season, episode |-> k]))

\* the position of a season among the keys of the mapping, 0 when absent
KeyIndex(m, season) ==
  IF \E i \in 1..Len(m) : m[i].season = season
  THEN CHOOSE i \in 1..Len(m) : m[i].season = season
  ELSE 0

\* "if episode.season not in series_info["episodes"]: ... = []" and
\* "....append(episode_dict)", over the rows as the query returns them: a
\* dict keeps its keys in the order of their insertion
RECURSIVE GroupBySeason(_, _, _)
GroupBySeason(rows, i, m) ==
  IF i > Len(rows) THEN m
  ELSE LET k == KeyIndex(m, rows[i].season)
       IN IF k = 0
          THEN GroupBySeason(rows, i + 1,
                 Append(m, [season |-> rows[i].season, episodes |-> <<rows[i].id>>]))
          ELSE GroupBySeason(rows, i + 1,
                 [m EXCEPT ![k].episodes = Append(@, rows[i].id)])

InitSeasons ==
  /\ focus = "series_episodes"
  /\ clock = 0
  /\ db = EmptyDb
  /\ lock = 0
  /\ sess = [r \in Sessions |-> Idle]
  /\ ncalls = 0
  /\ noverlap = 0
  /\ prev = NoCall
  /\ view \in {[kind |-> "seasons", pc |-> "fetched", payload |-> l,
                rows |-> <<>>, shaped |-> <<>>] : l \in SeasonPayloads}

\* the episodes of the payload are stored
StoreEpisodes ==
  /\ view.kind = "seasons"
  /\ view.pc = "fetched"
  /\ view' = [view EXCEPT !.pc = "stored",
                          !.rows = EpisodeRows(view.payload, 1, 1, <<>>)]
  /\ UNCHANGED mainvars

\* the stored episodes are read back and grouped for the response
RegroupEpisodes ==
  /\ view.kind = "seasons"
  /\ view.pc = "stored"
  /\ view' = [view EXCEPT !.pc = "shaped",
                          !.shaped = GroupBySeason(view.rows, 1, <<>>)]
  /\ UNCHANGED mainvars

NextSeasons == StoreEpisodes \/ RegroupEpisodes

SpecSeasons == InitSeasons /\ [][NextSeasons]_vars

(* ------------------------ optional fields of a series ----------------- *)

OptionalFields ==
  {"plot", "cast", "director", "genre", "releaseDate", "last_modified",
   "rating", "backdrop_path", "youtube_trailer", "episode_run_time"}

\* the three places that fill a Series row from a payload
SeriesPaths == {"_get_series_from_db", "get_all_series", "_get_series_streams_from_db"}

\* a field of an entry is there with its value, or is not there
Missing == "<missing>"
Sent == "<value>"

\* the default written in get_all_series: series.get(field, default)
DefaultOf(field) == IF field = "backdrop_path" THEN "[]" ELSE ""

\* how each place reads a field: series["plot"] (KeyError when missing)
\* or series.get("plot", "")
ReadsWithGet(path, field) ==
  \/ path = "get_all_series"
  \/ path = "_get_series_streams_from_db" /\ field = "youtube_trailer"

\* the Series object built (or updated) from an entry
BuildSeries(path, entry) ==
  IF \E f \in OptionalFields : entry[f] = Missing /\ ~ReadsWithGet(path, f)
  THEN [ok |-> FALSE, row |-> [f \in OptionalFields |-> Missing]]
  ELSE [ok |-> TRUE,
        row |-> [f \in OptionalFields |->
                   IF entry[f] = Missing THEN DefaultOf(f) ELSE entry[f]]]

InitFields ==
  /\ focus = "series"
  /\ clock = 0
  /\ db = EmptyDb
  /\ lock = 0
  /\ sess = [r \in Sessions |-> Idle]
  /\ ncalls = 0
  /\ noverlap = 0
  /\ prev = NoCall
  /\ view \in {[kind |-> "fields", pc |-> "fetched", path |-> p, entry |-> e,
                row |-> [f \in OptionalFields |-> Missing]] :
                 p \in SeriesPaths, e \in [OptionalFields -> {Missing, Sent}]}

\* the refresh builds the row of the entry; a KeyError ends the refresh
FillSeriesRow ==
  /\ view.kind = "fields"
  /\ view.pc = "fetched"
  /\ LET b == BuildSeries(view.path, view.entry)
     IN view' = [view EXCEPT !.pc = IF b.ok THEN "stored" ELSE "failed",
                             !.row = b.row]
  /\ UNCHANGED mainvars

NextFields == FillSeriesRow

SpecFields == InitFields /\ [][NextFields]_vars

(* --------------------------- concurrent lookups ------------------------ *)

\* entries of a pre-warmed list, calls of cache_icon by a request thread
MaxPoolList == 2
MaxResolves == 2

\* The threads that run cache_icon: one pool worker per entry of the list
\* (a list no longer than max_workers has every entry running at once) and
\* the thread of a request, numbered 0, which shapes rows.
RequestThread == 0
LookupThreads == {RequestThread} \cup (1..MaxPoolList)

NotRunning == [pc |-> "none", url |-> "", read |-> 0, result |-> ""]

\* filepath of cache_icon
IconFile(url) == Filename(url, ".png")

\* the holder of DownloadCounter.lock: a pool worker, or nobody
Nobody == 0

\* an increment that does not take the lock
LockIgnored(holder) == TRUE

\* with self.lock: the lock can be acquired
LockFree(holder) == holder = Nobody

InitLookups ==
  /\ focus = "live_channels"
  /\ clock = 0
  /\ db = EmptyDb
  /\ lock = 0
  /\ sess = [r \in Sessions |-> Idle]
  /\ ncalls = 0
  /\ noverlap = 0
  /\ prev = NoCall
  /\ \E n \in 1..MaxPoolList :
       \E l \in [1..n -> IconUrls], d \in SUBSET {IconFile(u) : u \in IconUrls} :
         view = [kind |-> "lookups", list |-> l, disk |-> d, resolves |-> 0,
                 thread |-> [t \in LookupThreads |->
                               IF t \in 1..n
                               THEN [NotRunning EXCEPT !.pc = "queued", !.url = l[t]]
                               ELSE NotRunning],
                 requested |-> {}, refetched |-> {},
                 counter |-> [total |-> n, current |-> 0, lock |-> Nobody]]

\* loop.run_in_executor(executor, cache_icon, icon_url, counter): a worker
\* takes the entry and enters cache_icon
RunInExecutor(t) ==
  /\ view.kind = "lookups"
  /\ t # RequestThread
  /\ view.thread[t].pc = "queued"
  /\ view' = [view EXCEPT !.thread[t].pc = "exists"]
  /\ UNCHANGED mainvars

\* "cached_icon": cache_icon(row.stream_icon) in the thread of a request
ResolveIcon ==
  /\ view.kind = "lookups"
  /\ view.thread[RequestThread].pc \in {"none", "returned"}
  /\ view.resolves < MaxResolves
  /\ \E u \in IconUrls :
       view' = [view EXCEPT
                  !.thread[RequestThread] = [NotRunning EXCEPT !.pc = "exists", !.url = u],
                  !.resolves = @ + 1]
  /\ UNCHANGED mainvars

\* the icon is on disk for this call: "if counter: counter.increment()"
\* (the pool passes its counter, a request passes none), then the path
WithIcon(t, th) ==
  IF t = RequestThread
  THEN [th EXCEPT !.pc = "returned", !.result = "path"]
  ELSE [th EXCEPT !.pc = "increment"]

\* if not os.path.exists(filepath)
PathExists(t) ==
  /\ view.kind = "lookups"
  /\ view.thread[t].pc = "exists"
  /\ view' = [view EXCEPT !.thread[t] =
                IF IconFile(view.thread[t].url) \in view.disk
                THEN WithIcon(t, @) ELSE [@ EXCEPT !.pc = "get"]]
  /\ UNCHANGED mainvars

\* response = requests.get(icon_url); response.raise_for_status()
RequestsGet(t) ==
  /\ view.kind = "lookups"
  /\ view.thread[t].pc = "get"
  /\ \E net \in NetOutcomes :
       LET u == view.thread[t].url
       IN view' = [view EXCEPT
                     !.thread[t] = IF net = "ok" THEN [@ EXCEPT !.pc = "write"]
                                   ELSE [@ EXCEPT !.pc = "returned", !.result = "none"],
                     !.requested = @ \cup {u},
                     !.refetched = IF IconFile(u) \in view.disk
                                   THEN @ \cup {u} ELSE @]
  /\ UNCHANGED mainvars

\* with open(filepath, "wb") as f: f.write(response.content), then the
\* sleep
WriteIcon(t) ==
  /\ view.kind = "lookups"
  /\ view.thread[t].pc = "write"
  /\ \E io \in DiskOutcomes :
       view' = [view EXCEPT
                  !.thread[t] = IF io = "ok" THEN WithIcon(t, @)
                                ELSE [@ EXCEPT !.pc = "returned", !.result = "OSError"],
                  !.disk = IF io = "open_fails" THEN @
                           ELSE @ \cup {IconFile(view.thread[t].url)}]
  /\ UNCHANGED mainvars

\* DownloadCounter.increment: with self.lock, and the read of
\* self.current += 1
AcquireAndRead(t) ==
  /\ view.kind = "lookups"
  /\ view.thread[t].pc = "increment"
  /\ LockFree(view.counter.lock)
  /\ view' = [view EXCEPT !.thread[t].pc = "store",
                          !.thread[t].read = view.counter.current,
                          !.counter.lock = t]
  /\ UNCHANGED mainvars

\* the write of self.current += 1, the end of the with block, and the
\* return of the path by cache_icon
StoreAndRelease(t) ==
  /\ view.kind = "lookups"
  /\ view.thread[t].pc = "store"
  /\ view' = [view EXCEPT !.thread[t].pc = "returned",
                          !.thread[t].result = "path",
                          !.counter.current = view.thread[t].read + 1,
                          !.counter.lock = Nobody]
  /\ UNCHANGED mainvars

NextLookups ==
  \/ \E t \in LookupThreads : RunInExecutor(t)
  \/ ResolveIcon
  \/ \E t \in LookupThreads : PathExists(t)
  \/ \E t \in LookupThreads : RequestsGet(t)
  \/ \E t \in LookupThreads : WriteIcon(t)
  \/ \E t \in LookupThreads : AcquireAndRead(t)
  \/ \E t \in LookupThreads : StoreAndRelease(t)

SpecLookups == InitLookups /\ [][NextLookups]_vars

(* ------------------------------ pre-warming --------------------------- *)

\* entries of the list given to cache_icons_background
MaxList == 12

\* ThreadPoolExecutor(max_workers=10)
max_workers == 10

\* The lists: entry i carries an icon URL (the same URL every second
\* entry), but for one entry e whose value is missing or empty.
PoolLists ==
  {[i \in 1..n |-> IF i = e THEN ""
                   ELSE IF i % 2 = 0 THEN "http://img/a" ELSE "http://img/b"] :
     n \in 0..MaxList, e \in 0..2}

\* icon_urls: the values of the entries that are truthy
icon_urls(data_list) == SelectSeq(data_list, LAMBDA u : u # "")

\* a pool that starts every submitted call at once
WorkerAlwaysFree(running) == TRUE

\* a worker thread of the executor is idle or can still be created
WorkerFree(running) == running < max_workers

\* how a call of cache_icon in a worker ends: the path, None after a
\* RequestException, or an OSError that the future carries
TaskOutcomes == {"path", "none", "OSError"}

InitPool ==
  /\ focus = "live_channels"
  /\ clock = 0
  /\ db = EmptyDb
  /\ lock = 0
  /\ sess = [r \in Sessions |-> Idle]
  /\ ncalls = 0
  /\ noverlap = 0
  /\ prev = NoCall
  /\ \E l \in PoolLists :
       view = [kind |-> "pool", list |-> l, started |-> 0, done |-> {},
               handed |-> <<>>, failed |-> FALSE, raised |-> FALSE,
               ended |-> FALSE, reported |-> FALSE]

\* the work queue of the executor: the next submitted call is taken by a
\* worker and cache_icon is entered with its URL
StartIcon ==
  /\ view.kind = "pool"
  /\ view.started < Len(icon_urls(view.list))
  /\ WorkerFree(view.started - Cardinality(view.done))
  /\ view' = [view EXCEPT
                !.started = @ + 1,
                !.handed = Append(@, icon_urls(view.list)[view.started + 1])]
  /\ UNCHANGED mainvars

\* cache_icon returns or raises in its worker
FinishIcon(i) ==
  /\ view.kind = "pool"
  /\ i \in (1..view.started) \ view.done
  /\ \E out \in TaskOutcomes :
       view' = [view EXCEPT
                  !.done = @ \cup {i},
                  !.failed = @ \/ out = "none",
                  !.raised = @ \/ out = "OSError"]
  /\ UNCHANGED mainvars

\* await asyncio.gather(*tasks) and the end of the with block, whose
\* shutdown waits for every worker; "Finished downloading" is logged
\* unless gather has raised the exception of a call
GatherAndFinish ==
  /\ view.kind = "pool"
  /\ ~view.ended
  /\ view.started = Len(icon_urls(view.list))
  /\ view.done = 1..view.started
  /\ view' = [view EXCEPT !.ended = TRUE, !.reported = ~view.raised]
  /\ UNCHANGED mainvars

NextPool ==
  \/ StartIcon
  \/ \E i \in 1..MaxList : FinishIcon(i)
  \/ GatherAndFinish

SpecPool == InitPool /\ [][NextPool]_vars

(* ---------------------------- local accounts -------------------------- *)

\* requests to the two admin handlers in a behaviour
MaxUserCalls == 3

Usernames == {"root", "ann", "bob"}

\* what get_current_user returns for no token, a bad token, or a token
\* whose user is not in the table
NoUser == [id |-> 0, username |-> "", is_admin |-> FALSE]

\* the tables the application is started on: the administrator made by
\* create_admin.py, alone or with a plain user
FoundUsers ==
  {{[id |-> 1, username |-> "root", is_admin |-> TRUE]},
   {[id |-> 1, username |-> "root", is_admin |-> TRUE],
    [id |-> 2, username |-> "ann", is_admin |-> FALSE]}}

\* get_current_user: the "sub" of the token, looked up by username ("" is
\* a request without a valid token)
get_current_user(sub, users) ==
  IF \E u \in users : u.username = sub
  THEN CHOOSE u \in users : u.username = sub
  ELSE NoUser

\* a handler that lets every authenticated caller through
Authenticated(current_user) == current_user # NoUser

\* the two tests of the admin handlers: "if not current_user" and
\* "if not current_user.is_admin" both answer with a redirect
Authorised(current_user) == current_user # NoUser /\ current_user.is_admin

InitUsers ==
  /\ focus = "account"
  /\ clock = 0
  /\ db = EmptyDb
  /\ lock = 0
  /\ sess = [r \in Sessions |-> Idle]
  /\ ncalls = 0
  /\ noverlap = 0
  /\ prev = NoCall
  /\ \E t \in FoundUsers :
       view = [kind |-> "users", users |-> t, before |-> t, calls |-> 0,
               handler |-> "", current_user |-> NoUser, user_id |-> 0,
               answer |-> ""]

\* POST /admin/add_user: username is UNIQUE, a second row with the name
\* fails at db.commit()
add_user ==
  /\ view.kind = "users"
  /\ view.calls < MaxUserCalls
  /\ \E sub \in Usernames \cup {""}, username \in Usernames, is_admin \in BOOLEAN :
       LET current_user == get_current_user(sub, view.users)
           db_user == [id |-> NextId(view.users), username |-> username,
                       is_admin |-> is_admin]
           taken == \E u \in view.users : u.username = username
       IN view' = [view EXCEPT
                     !.before = view.users, !.calls = @ + 1,
                     !.handler = "add_user", !.current_user = current_user,
                     !.user_id = 0,
                     !.answer = IF current_user = NoUser THEN "/login"
                                ELSE IF ~Authorised(current_user) THEN "/?error=authfail"
                                ELSE IF taken THEN "IntegrityError"
                                ELSE "/admin",
                     !.users = IF Authorised(current_user) /\ ~taken
                               THEN @ \cup {db_user} ELSE @]
  /\ UNCHANGED mainvars

\* POST /admin/delete_user/{user_id}
delete_user ==
  /\ view.kind = "users"
  /\ view.calls < MaxUserCalls
  /\ \E sub \in Usernames \cup {""}, user_id \in 1..(MaxUserCalls + 2) :
       LET current_user == get_current_user(sub, view.users)
       IN view' = [view EXCEPT
                     !.before = view.users, !.calls = @ + 1,
                     !.handler = "delete_user", !.current_user = current_user,
                     !.user_id = user_id,
                     !.answer = IF current_user = NoUser THEN "/login"
                                ELSE IF ~Authorised(current_user) THEN "/?error=authfail"
                                ELSE "/admin",
                     !.users = IF Authorised(current_user)
                               THEN {u \in @ : u.id # user_id} ELSE @]
  /\ UNCHANGED mainvars

NextUsers == add_user \/ delete_user

SpecUsers == InitUsers /\ [][NextUsers]_vars

(* ------------------------------ refresh time -------------------------- *)

\* how far in the past an expiry may lie, in seconds
MaxPast == 120

SecondsPerHour == 3600
SecondsPerMinute == 60
SecondsPerDay == TTL * SecondsPerHour

\* expiry_time - datetime.now() in whole seconds, from an expiry that
\* passed to one a full window ahead
Expiries == (0 - MaxPast)..SecondsPerDay

\* timedelta.seconds: a timedelta is kept as days, seconds and
\* microseconds with 0 <= seconds < 86400; the days are in .days
TimedeltaSeconds(t) ==
  IF t >= 0 THEN t % SecondsPerDay
  ELSE (SecondsPerDay - ((0 - t) % SecondsPerDay)) % SecondsPerDay

\* hours, remainder = divmod(time_until_refresh.seconds, 3600)
\* minutes, _ = divmod(remainder, 60)
CalculateRefreshTime(t) ==
  LET seconds == TimedeltaSeconds(t)
  IN [hours |-> seconds \div SecondsPerHour,
      minutes |-> (seconds % SecondsPerHour) \div SecondsPerMinute]

InitRefreshTime ==
  /\ focus = "account"
  /\ clock = 0
  /\ db = EmptyDb
  /\ lock = 0
  /\ sess = [r \in Sessions |-> Idle]
  /\ ncalls = 0
  /\ noverlap = 0
  /\ prev = NoCall
  /\ \E t \in Expiries :
       view = [kind |-> "refresh_time", pc |-> "called", t |-> t,
               hours |-> 0, minutes |-> 0]

calculate_refresh_time ==
  /\ view.kind = "refresh_time"
  /\ view.pc = "called"
  /\ view' = [view EXCEPT !.pc = "returned",
                          !.hours = CalculateRefreshTime(view.t).hours,
                          !.minutes = CalculateRefreshTime(view.t).minutes]
  /\ UNCHANGED mainvars

NextRefreshTime == calculate_refresh_time

SpecRefreshTime == InitRefreshTime /\ [][NextRefreshTime]_vars

(* ------------------------------- claims ------------------------------- *)

\* the freshness records stored for a key
KeyRecords(d, key) == {x \in d.refresh_data : x.data_type = key}

\* the resource key of the request a session serves
KeyOf(s) == DataType(s.op, s.arg)

\* in this step session r enters an operation
Starts(r) == sess[r].pc = "idle" /\ sess'[r].pc # "idle"

\* the key has no record, or one older than the window at time now
Outdated(d, key, now) ==
  \/ KeyRecords(d, key) = {}
  \/ \E x \in KeyRecords(d, key) : now - x.last_refresh > TTL

\* the operations that decide by the freshness record alone
RecordOps ==
  {"get_live_category", "get_live_streams_by_category", "get_series_category",
   "get_film_categories", "get_film_streams_by_category",
   "get_series_streams_by_series", "get_all_series"}

\* C1: for the seven operations of RecordOps a call fetches upstream if
\* and only if force_refresh is true, or its key has no freshness record,
\* or the clock minus the record's last_refresh is strictly greater than
\* 24 hours; at an age of exactly 24 hours it does not fetch.
FetchIffStale ==
  [][\A r \in Sessions :
       Starts(r) /\ sess'[r].op \in RecordOps =>
         (sess'[r].fetched <=>
            sess'[r].force \/ Outdated(db, KeyOf(sess'[r]), clock))]_vars

\* a non-forced call of one of the seven, answered from the store while
\* the record of its key is exactly 24 hours old
FetchIffStaleWitness ==
  \E r \in Sessions :
    /\ sess[r].op \in RecordOps
    /\ sess[r].pc = "done"
    /\ ~sess[r].force
    /\ ~sess[r].fetched
    /\ \E x \in KeyRecords(db, KeyOf(sess[r])) : clock - x.last_refresh = TTL

SecondCallReadsCache ==
  \A r \in Sessions :
    sess[r].pc # "idle" /\ sess[r].again =>
      /\ prev.kind = "refreshed"
      /\ ~sess[r].fetched
      /\ sess[r].pc = "done"
      /\ sess[r].result = prev.rows
      /\ Scope(sess[r].op, sess[r].arg, db) = prev.rows
      /\ KeyRecords(db, KeyOf(sess[r])) # {}
      /\ \A x \in KeyRecords(db, KeyOf(sess[r])) : x.last_refresh = prev.ts

\* a second call that returns the non-empty list its predecessor stored
SecondCallReadsCacheWitness ==
  \E r \in Sessions :
    /\ sess[r].again
    /\ sess[r].pc = "done"
    /\ sess[r].result # {}
    /\ sess[r].result = prev.rows

CategoryListOps ==
  {"get_live_streams_by_category", "get_film_streams_by_category",
   "get_series_by_category"}

\* the rows of a category in the table of an operation
RowsOfCategory(d, op, c) == {x \in d[TableOf(op)] : x.category_id = c}

\* in this step session r commits its refresh
Commits(r) == sess[r].pc = "commit" /\ sess'[r].pc \in {"read", "done"}

\* in this step session r ends in an error
Fails(r) == sess[r].pc # "failed" /\ sess'[r].pc = "failed"

\* C5: the refresh of the live-channel, film-stream or series list of a
\* category A leaves the stored rows of every other category B and the
\* freshness record of B's key as they were, in every commit of every
\* sequence of per-category refreshes.
ScopedReplace ==
  [][\A r \in Sessions :
       Commits(r) /\ sess[r].op \in CategoryListOps =>
         \A b \in CategoryIds \ {sess[r].arg} :
           /\ RowsOfCategory(db', sess[r].op, b) = RowsOfCategory(db, sess[r].op, b)
           /\ KeyRecords(db', DataType(sess[r].op, b))
                = KeyRecords(db, DataType(sess[r].op, b))]_vars

\* category A has just been refreshed with a non-empty list while rows and
\* a freshness record of another category are stored
ScopedReplaceWitness ==
  \E r \in Sessions : \E b \in CategoryIds \ {sess[r].arg} :
    /\ sess[r].op \in CategoryListOps
    /\ sess[r].pc = "read"
    /\ RowsOfCategory(db, sess[r].op, sess[r].arg) # {}
    /\ RowsOfCategory(db, sess[r].op, b) # {}
    /\ KeyRecords(db, DataType(sess[r].op, b)) # {}

\* C6: a refresh whose store write fails between the delete and the
\* commit leaves the committed store, which is all another request can
\* read, as it was: the old rows and the old freshness record.  The store
\* changes only in a successful commit, and then the scope holds the
\* whole new list together with the new timestamp.
StoreFailureLeavesStore ==
  [][/\ \A r \in Sessions : Fails(r) => db' = db
     /\ db' # db =>
          \E r \in Sessions :
            /\ Commits(r)
            /\ KeyRecords(db', KeyOf(sess[r])) # {}
            /\ sess[r].op \in ListOps =>
                 /\ Cardinality(Scope(sess[r].op, sess[r].arg, db'))
                      = Len(sess[r].payload.entries)
                 /\ \A x \in Scope(sess[r].op, sess[r].arg, db') :
                      x.v = sess[r].payload.entries[1].v
                 /\ \A x \in KeyRecords(db', KeyOf(sess[r])) :
                      x.last_refresh = sess[r].ts]_vars

\* a list refresh has failed in the store and the rows that were cached
\* when it began are still the rows of its scope
StoreFailureWitness ==
  \E r \in Sessions :
    /\ sess[r].op \in ListOps
    /\ sess[r].pc = "failed"
    /\ sess[r].err = "store"
    /\ sess[r].cached # {}
    /\ Scope(sess[r].op, sess[r].arg, db) = sess[r].cached

FetchFailures == {"network_error", "http_error", "not_json"}

\* C7: a request whose upstream fetch ends in a network error, a non-2xx
\* status or a body that is not JSON goes straight to its error: no step
\* of it deletes or inserts a row or creates or updates a freshness
\* record, for every operation.
FetchFailureBeforeMutation ==
  [][\A r \in Sessions :
       /\ sess'[r] # sess[r]
       /\ sess[r].upstream \in FetchFailures \/ sess'[r].upstream \in FetchFailures
       => /\ db' = db
          /\ lock' = lock
          /\ sess'[r].pc \in {"failed", "idle"}]_vars

\* a fetch has failed on a body that is not JSON while rows and a
\* freshness record of its key are stored
FetchFailureWitness ==
  \E r \in Sessions :
    /\ sess[r].pc = "failed"
    /\ sess[r].err = "fetch"
    /\ sess[r].upstream = "not_json"
    /\ Scope(sess[r].op, sess[r].arg, db) # {}
    /\ KeyRecords(db, KeyOf(sess[r])) # {}

\* C8, as stated: after a call that failed with a fetch or store error
\* while rows were cached, a non-forced retry of the same operation does
\* not need the upstream: it returns the rows that were cached.
RetryReturnsCache ==
  \A r \in Sessions :
    sess[r].pc # "idle" /\ sess[r].retry /\ prev.rows # {} =>
      /\ ~sess[r].fetched
      /\ sess[r].pc = "done"
      /\ sess[r].result = prev.rows

\* whether a non-forced call of the operation fetches, by the claim: its
\* key is outdated or its detail row is missing; the series list of a
\* category only when no row of the category is stored
RetryFetches(s, d, now) ==
  IF s.op = "get_series_by_category"
  THEN Scope(s.op, s.arg, d) = {} /\ Outdated(d, KeyOf(s), now)
  ELSE \/ Outdated(d, KeyOf(s), now)
       \/ s.op \in UpsertOps /\ Scope(s.op, s.arg, d) = {}

\* C8, amended: after such a failure the rows cached before it are still
\* stored; a non-forced retry is answered from them without a fetch
\* exactly when its key is not stale (the failed call was a forced one),
\* and otherwise fetches again and fails again while the upstream fails.
\* (The episodes of a series that has no Series row are never returned.)
RetryServesCacheIfFresh ==
  [][\A r \in Sessions :
       Starts(r) /\ sess'[r].retry =>
         /\ Scope(sess'[r].op, sess'[r].arg, db) = prev.rows
         /\ sess'[r].fetched <=> RetryFetches(sess'[r], db, clock)
         /\ ~sess'[r].fetched =>
              IF /\ sess'[r].op = "get_series_streams_by_series"
                 /\ \A x \in db.series : x.series_id # sess'[r].arg
              THEN sess'[r].pc = "failed"
              ELSE /\ sess'[r].pc = "done"
                   /\ sess'[r].result = prev.rows
         /\ sess'[r].fetched /\ sess'[r].upstream \in FetchFailures =>
              sess'[r].pc = "failed" /\ db' = db]_vars

\* a non-forced retry answered with the rows that were cached before the
\* failed call
RetryServesCacheWitness ==
  \E r \in Sessions :
    /\ sess[r].retry
    /\ sess[r].pc = "done"
    /\ ~sess[r].fetched
    /\ sess[r].result # {}
    /\ sess[r].result = prev.rows

\* C9: there is never more than one freshness record of a key; a commit
\* of a refresh leaves exactly one record of its key; and a record, once
\* created, stays the record of its key (a later refresh updates it and
\* adds none), whatever the interleaving of the requests.
OneRecordPerKey ==
  [][/\ \A x, y \in db'.refresh_data : x.data_type = y.data_type => x = y
     /\ \A x \in db.refresh_data :
          \E y \in db'.refresh_data : y.id = x.id /\ y.data_type = x.data_type
     /\ \A r \in Sessions :
          Commits(r) => Cardinality(KeyRecords(db', KeyOf(sess[r]))) = 1]_vars

\* a second refresh of a key has committed: the one record of the key is
\* the record the first refresh created, with a later timestamp
OneRecordPerKeyWitness ==
  \E r \in Sessions :
    /\ sess[r].pc = "read"
    /\ sess[r].fetched
    /\ prev.kind = "refreshed"
    /\ prev.op = sess[r].op
    /\ prev.arg = sess[r].arg
    /\ \E x \in KeyRecords(db, KeyOf(sess[r])) :
         x.id = 1 /\ x.last_refresh = sess[r].ts /\ x.last_refresh > prev.ts

\* C10, as stated: the last_refresh stored for a key never decreases:
\* every step leaves the timestamp of every record greater than or equal
\* to the one stored before, under any interleaving of refreshes.
TimestampNeverDecreases ==
  [][\A x \in db.refresh_data : \A y \in db'.refresh_data :
       y.data_type = x.data_type => y.last_refresh >= x.last_refresh]_vars

\* C11, as stated: for the list operations (category lists, channels /
\* films / series of a category, episodes of a series, EPG listings of a
\* stream) a non-forced call that finds no stored row in its scope
\* fetches upstream, also when the freshness record of its key is younger
\* than 24 hours.
EmptyScopeIsStale ==
  [][\A r \in Sessions :
       /\ Starts(r)
       /\ ~sess'[r].force
       /\ sess'[r].op \in ListOps \ {"get_all_series"}
       /\ Scope(sess'[r].op, sess'[r].arg, db) = {}
       => sess'[r].fetched]_vars

\* C12: a non-forced call of get_user_info or get_film_details that finds
\* no row of its own fetches upstream, also when the freshness record of
\* its key is younger than 24 hours; and when such a refresh commits, the
\* row and the freshness record of the key are both stored.
MissingDetailIsFetched ==
  [][\A r \in Sessions :
       /\ Starts(r) /\ ~sess'[r].force /\ sess'[r].op \in UpsertOps
          /\ Scope(sess'[r].op, sess'[r].arg, db) = {}
          => sess'[r].fetched
       /\ Commits(r) /\ sess[r].op \in UpsertOps
          => /\ Scope(sess[r].op, sess[r].arg, db') # {}
             /\ KeyRecords(db', KeyOf(sess[r])) # {}]_vars

\* a non-forced detail call that loaded a record younger than 24 hours and
\* no row, has fetched, and is about to commit its row
MissingDetailWitness ==
  \E r \in Sessions :
    /\ sess[r].op \in UpsertOps
    /\ sess[r].pc = "commit"
    /\ ~sess[r].force
    /\ sess[r].fetched
    /\ sess[r].rec # NoRec
    /\ clock - sess[r].rec.last_refresh <= TTL
    /\ sess[r].obj = 0
    /\ Scope(sess[r].op, sess[r].arg, db) = {}

\* the operations that refresh the list of categories of a kind
CategoryOps == {"get_live_category", "get_series_category", "get_film_categories"}

\* the rows a category payload maps to: one per entry, carrying the
\* provider's category id and the entry's content
RowsMappedFrom(p) ==
  {[category_id |-> p.entries[i].id, v |-> p.entries[i].v] :
     i \in 1..Len(p.entries)}

OverlappingRefreshesBothCommit ==
  \A r \in Sessions :
    sess[r].pc = "commit" /\ ~sess[r].alone =>
      Touch(db, sess[r].rec, KeyOf(sess[r]), sess[r].ts).ok

\* the base64 string the provider sends for a plain text
Encoded(text) == B64Encode(Utf8Encode(text))

\* C15: when the title and the description sent by the provider are the
\* base64 of the UTF-8 of two plain texts T and D, the store holds the two
\* strings as they were received, every shaping of the listing returns T
\* as title and D as description, and the stored strings are the same
\* after any number of shapings.
EpgRoundTrip ==
  view.kind = "epg" /\ view.pc # "fetched" =>
    /\ view.stored.title = view.upstream.title
    /\ view.stored.description = view.upstream.description
    /\ \A t \in Texts, d \in Texts :
         /\ view.upstream.title = Encoded(t)
         /\ view.upstream.description = Encoded(d)
         /\ view.reads > 0
         => /\ view.pc = "shaped"
            /\ view.shaped.title = t
            /\ view.shaped.description = d

\* a listing whose title is the base64 of "e acute, euro", shaped twice
EpgRoundTripWitness ==
  /\ view.kind = "epg"
  /\ view.pc = "shaped"
  /\ view.reads = MaxReads
  /\ view.stored.title = Encoded(<<233, 8364>>)
  /\ view.stored.description = Encoded(<<65>>)
  /\ view.shaped.title = <<233, 8364>>
  /\ view.shaped.description = <<65>>

\* C16, as stated: the shaping of a stored listing whose title or
\* description is not well-formed base64 (wrong padding or length) or
\* does not decode to valid UTF-8 returns a replacement text and does not
\* end in an error.
MalformedEpgTextIsReplaced ==
  view.kind = "epg" /\ view.reads > 0 => view.pc = "shaped"

\* C17: the play link of each film of a category and of a film detail is
\* base + "/movie/" + user + "/" + pass + "/" + streamId + "." +
\* containerExt, and the play link of each live channel is base + "/live/"
\* + user + "/" + pass + "/" + streamId + ".ts", streamId being the id the
\* provider gave in the payload: one such link per entry, and no other.
FilmAndLivePlayLinks ==
  /\ view.kind = "links"
  /\ view.pc = "shaped"
  /\ view.op # "get_series_streams_by_series"
  => {d.play_link : d \in view.shaped} =
       {view.conn.base_url
          \o (IF view.op = "get_live_streams_by_category" THEN "/live/" ELSE "/movie/")
          \o view.conn.username \o "/" \o view.conn.password \o "/"
          \o ToString(view.payload[i].id) \o "."
          \o (IF view.op = "get_live_streams_by_category" THEN "ts"
              ELSE view.payload[i].container_extension) :
        i \in 1..Len(view.payload)}

\* film 42 with extension mp4, listed with the link
\* http://x.tv/movie/u/p/42.mp4 although the table held other rows first
FilmAndLivePlayLinksWitness ==
  /\ view.kind = "links"
  /\ view.pc = "shaped"
  /\ view.op = "get_film_streams_by_category"
  /\ view.payload = <<[id |-> 42, container_extension |-> "mp4"]>>
  /\ \E x \in view.rows : x.scope = OtherScope
  /\ \E d \in view.shaped : d.play_link = "http://x.tv/movie/u/p/42.mp4"

\* C18, as stated: the play link of each episode is base + "/series/" +
\* user + "/" + pass + "/" + episodeId + "." + ext with episodeId the id
\* the provider gave the episode in the fetched payload (so the same in
\* every call, whatever is refreshed and whatever episodes of other series
\* are stored).
EpisodeLinkHasProviderId ==
  /\ view.kind = "links"
  /\ view.pc = "shaped"
  /\ view.op = "get_series_streams_by_series"
  => \A i \in 1..Len(view.payload) :
       \E d \in view.shaped :
         /\ d.season = i
         /\ d.play_link =
              view.conn.base_url \o "/series/" \o view.conn.username \o "/"
                \o view.conn.password \o "/" \o ToString(view.payload[i].id)
                \o "." \o view.payload[i].container_extension

\* C19, as stated: cache_icon and cache_backdrop raise for no input
\* (download succeeding or failing, URL empty or missing, disk write
\* failing); each returns the path of the asset when the asset is on disk
\* after the call and null otherwise; and no icon makes the list operation
\* that shapes it fail.
IconCachingNeverRaises ==
  view.kind = "icons" /\ view.calls > 0 =>
    /\ view.raised = ""
    /\ Len(view.results) = Len(view.args)
    /\ \A i \in 1..Len(view.results) :
         LET r == view.results[i]
             ext == IF view.fn = "cache_backdrop" THEN ".jpg" ELSE ".png"
         IN /\ r # NoFile => r \in view.disk
            /\ r = NoFile /\ view.args[i].items # <<>>
               => Filename(view.args[i].items[1], ext) \notin view.disk

\* C20, as stated: in every page handler a request of a caller who is not
\* authenticated, or lacks the capability, short-circuits: it causes no
\* call of the client, no upstream fetch and no change of the store.
AuthFailureShortCircuits ==
  view.kind = "pages" /\ view.caller = "anonymous" =>
    /\ ncalls = 0
    /\ \A r \in Sessions : sess[r].pc = "idle"
    /\ db = EmptyDb

\* C21, as stated: the mapping from season number to episode list that
\* get_series_streams_by_series returns holds every stored episode of the
\* series exactly once, in the list of its own season; no season key has
\* an empty list; and the season keys are in ascending order, whatever the
\* order of the seasons in the upstream payload.
SeasonsRegroupedInOrder ==
  view.kind = "seasons" /\ view.pc = "shaped" =>
    LET m == view.shaped
    IN /\ \A n \in 1..Len(view.rows) :
            /\ Cardinality({<<i, j>> \in (1..Len(m)) \X (1..MaxSeasons * MaxEpisodes) :
                              j <= Len(m[i].episodes)
                              /\ m[i].episodes[j] = view.rows[n].id}) = 1
            /\ \E i \in 1..Len(m) :
                 /\ m[i].season = view.rows[n].season
                 /\ \E j \in 1..Len(m[i].episodes) :
                      m[i].episodes[j] = view.rows[n].id
       /\ \A i \in 1..Len(m) : m[i].episodes # <<>>
       /\ \A i, j \in 1..Len(m) : i < j => m[i].season < m[j].season

\* C22, as stated: when an optional field of a series (plot, cast,
\* director, genre, releaseDate, last_modified, rating, backdrop_path,
\* youtube_trailer, episode_run_time) is missing from a payload entry, the
\* refresh stores the default and succeeds, and does so the same way in
\* the series-per-category refresh, the all-series refresh and the update
\* in place of the episode refresh.
OptionalFieldsDefaulted ==
  view.kind = "fields" /\ view.pc # "fetched" =>
    /\ view.pc = "stored"
    /\ \A f \in OptionalFields :
         view.row[f] = IF view.entry[f] = Missing THEN DefaultOf(f) ELSE Sent

\* C23: while the file of a URL is on disk no lookup of that URL performs
\* a network request, also when lookups of the same URL run concurrently
\* (duplicates in the pre-warmed list, a request thread beside the pool).
NoRequestWhileOnDisk ==
  view.kind = "lookups" => view.refetched = {}

\* C24: during cache_icons_background at most 10 calls of cache_icon are
\* in progress, the calls handed to cache_icon are the non-empty icon URLs
\* of the list, each entry once and none else, and completion is reported
\* only when every one of them has been handed over and has finished.
PreWarmRunsOnBoundedPool ==
  view.kind = "pool" =>
    LET urls == icon_urls(view.list)
    IN /\ view.started - Cardinality(view.done) <= 10
       /\ Len(view.handed) <= Len(urls)
       /\ view.handed = SubSeq(urls, 1, Len(view.handed))
       /\ \A k \in 1..Len(view.handed) : view.handed[k] # ""
       /\ view.reported =>
            /\ view.handed = urls
            /\ view.done = 1..Len(urls)

\* completion reported for a list with an empty entry and more icon URLs
\* than workers, one of whose downloads failed
PreWarmWitness ==
  /\ view.kind = "pool"
  /\ view.reported
  /\ view.failed
  /\ Len(icon_urls(view.list)) > 10
  /\ Len(icon_urls(view.list)) < Len(view.list)

\* the Series rows of the entries of an all-series payload
SeriesOfPayload(p) ==
  {[series_id |-> p.entries[i].id, category_id |-> p.entries[i].category_id,
    v |-> p.entries[i].v] : i \in 1..Len(p.entries)}

\* C25: when the all-series refresh commits, the stored series rows are
\* exactly the payload's entries, each under its own category; the count
\* of rows equals the number of entries inserted, so the sanity check
\* finds no mismatch, and the operation ends without error returning all
\* stored series under a record that carries the new timestamp.
AllSeriesRefreshStoresPayload ==
  [][\A r \in Sessions :
       LET s == sess[r]
       IN s.op = "get_all_series" /\ Commits(r) =>
            /\ db'.series = SeriesOfPayload(s.payload)
            /\ Cardinality(db'.series) = Len(s.payload.entries)
            /\ sess'[r].pc = "done"
            /\ sess'[r].err = ""
            /\ sess'[r].result = db'.series
            /\ \E x \in db'.refresh_data :
                 /\ KeyRecords(db', KeyOf(s)) = {x}
                 /\ x.last_refresh = s.ts]_vars

\* an all-series refresh has replaced stored series by series of two
\* categories and returned them
AllSeriesRefreshWitness ==
  \E r \in Sessions :
    /\ sess[r].op = "get_all_series"
    /\ sess[r].pc = "done"
    /\ sess[r].fetched
    /\ ncalls > 1
    /\ sess[r].result = db.series
    /\ \E x, y \in db.series : x.category_id # y.category_id
    /\ \E x \in KeyRecords(db, KeyOf(sess[r])) : x.last_refresh = sess[r].ts

\* the episodes of a payload, without the row ids the store gives them
EpisodesOfPayload(p) ==
  {[season |-> p.entries[i].season, episode |-> p.entries[i].episode_num,
    v |-> p.entries[i].v] : i \in 1..Len(p.entries)}

\* the stored episodes of series i, without their row ids
EpisodesOfSeries(d, i) ==
  {[season |-> x.season, episode |-> x.episode, v |-> x.v] :
     x \in {y \in d.series_episodes : y.series_id = i}}

\* C26: a committed episode refresh of series S leaves as the episodes of
\* S exactly the payload's episodes and leaves the episode rows of every
\* other series as they were; the Series rows keep their series ids and
\* category ids, none is added or removed, the row of S (if there is one)
\* takes the payload's info and every other Series row is unchanged.
EpisodeRefreshFrame ==
  [][\A r \in Sessions :
       LET s == sess[r]
       IN s.op = "get_series_streams_by_series" /\ Commits(r) =>
            /\ EpisodesOfSeries(db', s.arg) = EpisodesOfPayload(s.payload)
            /\ Cardinality({x \in db'.series_episodes : x.series_id = s.arg})
                 = Len(s.payload.entries)
            /\ {x \in db'.series_episodes : x.series_id # s.arg}
                 = {x \in db.series_episodes : x.series_id # s.arg}
            /\ Cardinality(db'.series) = Cardinality(db.series)
            /\ {[series_id |-> x.series_id, category_id |-> x.category_id] :
                  x \in db'.series}
                 = {[series_id |-> x.series_id, category_id |-> x.category_id] :
                      x \in db.series}
            /\ {x \in db'.series : x.series_id # s.arg}
                 = {x \in db.series : x.series_id # s.arg}
            /\ \A x \in db'.series :
                 x.series_id = s.arg => x.v = s.payload.info]_vars

\* the episodes of a series with a Series row have been refreshed while
\* episodes of another series are stored
EpisodeRefreshWitness ==
  \E r \in Sessions :
    /\ sess[r].op = "get_series_streams_by_series"
    /\ sess[r].pc = "read"
    /\ \E x \in db.series : x.series_id = sess[r].arg
    /\ \E x \in db.series_episodes : x.series_id = sess[r].arg
    /\ \E x \in db.series_episodes : x.series_id # sess[r].arg

\* no Series row of series i is stored
NoSeriesRow(d, i) == ~\E x \in d.series : x.series_id = i

ErrorLeavesStoreAsBefore ==
  \A r \in Sessions :
    ncalls = 1 /\ sess[r].pc = "failed" =>
      /\ KeyRecords(db, KeyOf(sess[r])) = {}
      /\ Scope(sess[r].op, sess[r].arg, db) = {}

\* C29, as stated: an operation that returns (data, fetchedAt, expiresAt)
\* returns as fetchedAt the last_refresh that the freshness record of its
\* key holds in the store at the time of the return, and as expiresAt
\* fetchedAt plus 24 hours, refreshed or served from the cache.
ReturnedTimesAreStored ==
  \A r \in Sessions :
    sess[r].pc = "done" /\ sess[r].op \in TripleOps =>
      /\ sess[r].times.expiresAt = sess[r].times.fetchedAt + TTL
      /\ \E x \in KeyRecords(db, KeyOf(sess[r])) :
           x.last_refresh = sess[r].times.fetchedAt

\* C29, amended: expiresAt is fetchedAt plus 24 hours in every return, a
\* freshness record of the key is stored, and fetchedAt is the
\* last_refresh of that record at the time of the return when no other
\* request ran during the call.
ReturnedTimesAreStoredWhenAlone ==
  \A r \in Sessions :
    sess[r].pc = "done" /\ sess[r].op \in TripleOps =>
      /\ sess[r].times.expiresAt = sess[r].times.fetchedAt + TTL
      /\ KeyRecords(db, KeyOf(sess[r])) # {}
      /\ sess[r].alone =>
           \A x \in KeyRecords(db, KeyOf(sess[r])) :
             x.last_refresh = sess[r].times.fetchedAt

\* a request served from the cache, alone, after the clock has advanced
\* past the stamp of the record
ReturnedTimesWitness ==
  \E r \in Sessions :
    /\ sess[r].pc = "done"
    /\ sess[r].op \in TripleOps
    /\ sess[r].alone
    /\ ~sess[r].fetched
    /\ clock > sess[r].times.fetchedAt
    /\ \E x \in KeyRecords(db, KeyOf(sess[r])) :
         x.last_refresh = sess[r].times.fetchedAt

\* C30, as stated: the account-profile table holds at most one row in
\* every reachable state, for any interleaving of get_user_info calls,
\* also when two of them run concurrently on a store that has the
\* freshness record and no profile row.
AtMostOneProfileRow == Cardinality(db.user_info) <= 1

\* the FilmDetail rows of vod id i
FilmDetailsOf(d, i) == {x \in d.film_details : x.stream_id = i}

\* C31: after every step each vod id has at most one FilmDetail row; a
\* committed refresh of a film's detail leaves one row for its vod id,
\* carrying the payload, which is the row stored before when there was
\* one, and leaves the FilmDetail rows and the freshness records of all
\* other vod ids as they were.
OneFilmDetailPerVodId ==
  [][/\ \A i \in EntityIds : Cardinality(FilmDetailsOf(db', i)) <= 1
     /\ \A r \in Sessions :
          LET s == sess[r]
          IN s.op = "get_film_details" /\ Commits(r) =>
               /\ Cardinality(FilmDetailsOf(db', s.arg)) = 1
               /\ \A x \in FilmDetailsOf(db', s.arg) : x.v = s.payload.info
               /\ FilmDetailsOf(db, s.arg) # {} =>
                    {x.id : x \in FilmDetailsOf(db', s.arg)}
                      = {x.id : x \in FilmDetailsOf(db, s.arg)}
               /\ \A i \in EntityIds \ {s.arg} :
                    /\ FilmDetailsOf(db', i) = FilmDetailsOf(db, i)
                    /\ KeyRecords(db', DataType(s.op, i))
                         = KeyRecords(db, DataType(s.op, i))]_vars

\* the detail of a film has been refreshed a second time, in place, while
\* the detail and the record of another film are stored
OneFilmDetailWitness ==
  \E r \in Sessions : \E i \in EntityIds \ {sess[r].arg} :
    /\ sess[r].op = "get_film_details"
    /\ sess[r].pc = "done"
    /\ sess[r].fetched
    /\ ncalls = 3
    /\ \E x \in FilmDetailsOf(db, sess[r].arg) : x.v = 3
    /\ FilmDetailsOf(db, i) # {}
    /\ KeyRecords(db, DataType(sess[r].op, i)) # {}
    /\ Cardinality(db.film_details) = 2

\* C32, as stated: with the upstream reachable and a well-formed payload,
\* the refresh of the live-channel, film-stream or series list of a
\* category succeeds whatever rows are stored for other categories: the
\* unit of work of a request that runs alone, met by no store error,
\* goes through, also when the payload names an id stored under another
\* category.
MovedEntryRefreshSucceeds ==
  \A r \in Sessions :
    ( /\ sess[r].pc = "commit"
      /\ sess[r].op \in CategoryListOps
      /\ sess[r].alone )
    => UnitOfWork(db, sess[r], 0).ok

\* the operations whose key is a category or an entity and whose refresh
\* replaces the rows of that scope
ScopedOps ==
  {"get_live_streams_by_category", "get_film_streams_by_category",
   "get_series_by_category", "get_series_streams_by_series", "get_epg_info"}

\* a row without the row id the store gives it
Content(op, x) ==
  CASE op = "get_series_streams_by_series" ->
         [season |-> x.season, episode |-> x.episode, v |-> x.v]
    [] op = "get_epg_info" -> [epg_id |-> x.epg_id, v |-> x.v]
    [] op = "get_series_by_category" -> [series_id |-> x.series_id, v |-> x.v]
    [] OTHER -> [stream_id |-> x.stream_id, v |-> x.v]

\* C33: whenever a refresh of a per-category or per-entity key commits,
\* alone or interleaved with another refresh of the same key, the
\* committed rows of the scope are the mapped rows of the payload of that
\* refresh, one row per entry: no row twice, no row of another payload.
ScopeHoldsOnePayload ==
  [][\A r \in Sessions :
       LET s == sess[r]
           after == Scope(s.op, s.arg, db')
       IN s.op \in ScopedOps /\ Commits(r) =>
            /\ {Content(s.op, x) : x \in after}
                 = {Content(s.op, NewRow(s.op, s.arg, s.payload.entries[i], {})) :
                      i \in 1..Len(s.payload.entries)}
            /\ Cardinality(after) = Len(s.payload.entries)]_vars

\* two refreshes of one key have overlapped and both have committed; the
\* scope holds rows, all of the payload of the later request
ScopeHoldsOnePayloadWitness ==
  \E r, q \in Sessions :
    /\ r # q
    /\ sess[r].op \in ScopedOps
    /\ sess[q].op = sess[r].op /\ sess[q].arg = sess[r].arg
    /\ sess[r].pc = "read" /\ sess[q].pc = "read"
    /\ sess[r].fetched /\ sess[q].fetched
    /\ Scope(sess[r].op, sess[r].arg, db) # {}
    /\ \A x \in Scope(sess[r].op, sess[r].arg, db) : x.v = ncalls

\* C34: a request to add_user or delete_user changes the user table only
\* when its caller is authenticated and an administrator; a request of
\* an unauthenticated caller or of a plain user leaves the table as it
\* was, and so does delete_user of an id that no row has.
OnlyAdminChangesUsers ==
  view.kind = "users" /\ view.handler # "" =>
    /\ view.users # view.before =>
         /\ view.current_user \in view.before
         /\ view.current_user.is_admin
    /\ view.current_user = NoUser \/ ~view.current_user.is_admin =>
         view.users = view.before
    /\ ( /\ view.handler = "delete_user"
         /\ ~\E u \in view.before : u.id = view.user_id )
       => view.users = view.before

\* a plain user, present in the table, has asked for the deletion of the
\* administrator and has been turned away
OnlyAdminWitness ==
  /\ view.kind = "users"
  /\ view.handler = "delete_user"
  /\ view.current_user \in view.before
  /\ ~view.current_user.is_admin
  /\ \E u \in view.before : u.id = view.user_id /\ u.is_admin
  /\ view.answer = "/?error=authfail"
  /\ view.users = view.before

\* C35, as stated: for an expiry t whole seconds ahead, 0 <= t <= 86400,
\* calculate_refresh_time returns floor(t / 3600) hours and
\* floor((t mod 3600) / 60) minutes, and for an expiry that has passed it
\* returns 0 hours and 0 minutes.
RefreshTimeIsTimeLeft ==
  view.kind = "refresh_time" /\ view.pc = "returned" =>
    IF view.t >= 0
    THEN /\ view.hours = view.t \div 3600
         /\ view.minutes = (view.t % 3600) \div 60
    ELSE /\ view.hours = 0
         /\ view.minutes = 0

\* the pool workers whose call of cache_icon has returned the path
FinishedWithIcon ==
  {t \in LookupThreads \ {RequestThread} :
     view.thread[t].pc = "returned" /\ view.thread[t].result = "path"}

\* C36: the counter of a pre-warm never exceeds its total and loses no
\* increment: current is the number of cache_icon tasks that have
\* finished with their icon on disk, downloaded or already present, and
\* when every task has finished that way current equals total.
CounterCountsFinishedIcons ==
  view.kind = "lookups" =>
    /\ view.counter.current <= view.counter.total
    /\ view.counter.current = Cardinality(FinishedWithIcon)
    /\ Cardinality(FinishedWithIcon) = Len(view.list) =>
         view.counter.current = view.counter.total

\* two workers have finished, one having downloaded its icon and one
\* having found it on disk, and the counter has reached its total
CounterWitness ==
  /\ view.kind = "lookups"
  /\ view.counter.total = 2
  /\ view.counter.current = 2
  /\ Cardinality(FinishedWithIcon) = 2
  /\ view.requested # {}
  /\ Cardinality(view.requested) < Cardinality({view.list[i] : i \in 1..2})

====
